---- MODULE Spec2Model ----
(***************************************************************************)
(* PDF417 / MicroPDF417 encoder: error-correction codeword generation      *)
(* (src/src/ecc.rs), the high-level PDF417Encoder (src/src/high_level.rs)  *)
(* and the symbol with its renderers (src/src/builder.rs,                  *)
(* src/src/generators, src/src/lib.rs).                                    *)
(*                                                                         *)
(* Sequences are 1-based here and 0-based in the source: slot k of the     *)
(* source is element k+1 of the sequence that models it.                   *)
(***************************************************************************)
EXTENDS Integers, Sequences, FiniteSets, TLC

VARIABLES
    checks,      \* build profile: TRUE = debug (overflow checks, debug_assert!), FALSE = release (wrapping)
    codewords,   \* generate_ecc: the slice handed to generate_ecc
    level,       \* generate_ecc: the ECC level argument
    ecc_pc,      \* generate_ecc: "idle" | "ready" | "done" | "panic"
    ecc_in,      \* generate_ecc: the slice as it was at the call (history)
    storage,     \* PDF417Encoder.storage: the caller's buffer
    used,        \* PDF417Encoder.used: the write cursor
    micro,       \* PDF417Encoder.micro
    last_mode,   \* PDF417Encoder.last_mode
    enc_pc,      \* the encoder: "idle" | "open" | "sealed" | "nofit" | "panic"
    op,          \* the last call on the encoder and the encoder as it was at the call (history)
    nops,        \* number of append_* calls made on the encoder
    sym,         \* the symbol (PDF417 of lib.rs, PDF417 / PDF417Render of builder.rs)
    sym_pc,      \* the symbol: "idle" | "built" | "rejected" | "rendered" | "panic"
    target,      \* the renderer's target: its modules or bytes, the write position, the panic if any
    iter,        \* one row iterator (PDF417Row<false>, PDF417Row<true>, MicroPDF417Row)
    yielded      \* what the calls of next() on the row iterator returned, in order (history)

eccVars == <<codewords, level, ecc_pc, ecc_in>>
encVars == <<storage, used, micro, last_mode, enc_pc, op, nops>>

symVars == <<sym, sym_pc, target, iter, yielded>>

vars == <<checks, codewords, level, ecc_pc, ecc_in,
          storage, used, micro, last_mode, enc_pc, op, nops,
          sym, sym_pc, target, iter, yielded>>

\* the history record before any call
NoOp == [name |-> "none", arg |-> <<>>, used0 |-> 0, storage0 |-> <<>>, mode0 |-> 0,
         fault |-> "none", ret |-> <<>>]

\* no encoder is under construction
EncIdle ==
    /\ storage = <<>>
    /\ used = 0
    /\ micro = FALSE
    /\ last_mode = 0
    /\ enc_pc = "idle"
    /\ op = NoOp
    /\ nops = 0

\* the symbol record before any constructor call
NoSym == [api |-> "none", codewords |-> <<>>, rows |-> 0, cols |-> 0, level |-> 0,
          scale |-> <<1, 1>>, truncated |-> FALSE, inverted |-> FALSE]

\* the row iterator before any row is initialised
NoRow == [codewords |-> <<>>, fault |-> "none", kind |-> "none", next_pat |-> "None",
          table |-> 0, markers |-> <<0, 0>>, start_ind |-> 0, center_ind |-> 0,
          end_ind |-> 0,
          of |-> [codewords |-> <<>>, level |-> 0, rows |-> 0, cols |-> 0, row |-> 0]]

\* no symbol is constructed and no row iterator exists
SymIdle ==
    /\ sym = NoSym
    /\ sym_pc = "idle"
    /\ target = [out |-> <<>>, i |-> 0, fault |-> "none"]
    /\ iter = NoRow
    /\ yielded = <<>>

\* no generate_ecc call of its own is under way
EccIdle ==
    /\ codewords = <<>>
    /\ level = 0
    /\ ecc_pc = "idle"
    /\ ecc_in = <<>>

----------------------------------------------------------------------------
(* Bounds of the model and constants of the program                        *)

\* greatest ECC level with free (enumerated) input data
MaxFreeLevel == 2
\* greatest number of data codewords of an enumerated generate_ecc input
MaxDataLen == 3
\* assert!(level <= 8) in generate_ecc
MaxEccLevel == 8
\* width of a codeword slot
U16 == 65536

\* data codewords the enumerated generate_ecc inputs are drawn from
CwSamples == {0, 1, 900, 928}
\* prior contents of the slots generate_ecc overwrites
EccGarbage == {0, 77}

Zeros(n) == [k \in 1..n |-> 0]
Fill(n, v) == [k \in 1..n |-> v]

\* all sequences over S of length at most n
SeqsUpTo(S, n) == UNION {[1..k -> S] : k \in 0..n}

----------------------------------------------------------------------------
(* tables.rs: generator-polynomial factors of each ECC level               *)
(* (coefficients of (x-3)(x-3^2)...(x-3^N) modulo 929, lowest order first) *)

ECC_L0 ==
    <<27, 917>>
ECC_L1 ==
    <<522, 568, 723, 809>>
ECC_L2 ==
    <<237, 308, 436, 284, 646, 653, 428, 379>>
ECC_L3 ==
    <<274, 562, 232, 755, 599, 524, 801, 132, 295, 116, 442, 428, 295, 42, 176, 65>>
ECC_L4 ==
    <<361, 575, 922, 525, 176, 586, 640, 321, 536, 742, 677, 742, 687, 284, 193, 517, 273, 494,
      263, 147, 593, 800, 571, 320, 803, 133, 231, 390, 685, 330, 63, 410>>
ECC_L5 ==
    <<539, 422, 6, 93, 862, 771, 453, 106, 610, 287, 107, 505, 733, 877, 381, 612, 723, 476,
      462, 172, 430, 609, 858, 822, 543, 376, 511, 400, 672, 762, 283, 184, 440, 35, 519, 31,
      460, 594, 225, 535, 517, 352, 605, 158, 651, 201, 488, 502, 648, 733, 717, 83, 404, 97,
      280, 771, 840, 629, 4, 381, 843, 623, 264, 543>>
ECC_L6 ==
    <<521, 310, 864, 547, 858, 580, 296, 379, 53, 779, 897, 444, 400, 925, 749, 415, 822, 93,
      217, 208, 928, 244, 583, 620, 246, 148, 447, 631, 292, 908, 490, 704, 516, 258, 457, 907,
      594, 723, 674, 292, 272, 96, 684, 432, 686, 606, 860, 569, 193, 219, 129, 186, 236, 287,
      192, 775, 278, 173, 40, 379, 712, 463, 646, 776, 171, 491, 297, 763, 156, 732, 95, 270,
      447, 90, 507, 48, 228, 821, 808, 898, 784, 663, 627, 378, 382, 262, 380, 602, 754, 336,
      89, 614, 87, 432, 670, 616, 157, 374, 242, 726, 600, 269, 375, 898, 845, 454, 354, 130,
      814, 587, 804, 34, 211, 330, 539, 297, 827, 865, 37, 517, 834, 315, 550, 86, 801, 4, 108,
      539>>
ECC_L7 ==
    <<524, 894, 75, 766, 882, 857, 74, 204, 82, 586, 708, 250, 905, 786, 138, 720, 858, 194,
      311, 913, 275, 190, 375, 850, 438, 733, 194, 280, 201, 280, 828, 757, 710, 814, 919, 89,
      68, 569, 11, 204, 796, 605, 540, 913, 801, 700, 799, 137, 439, 418, 592, 668, 353, 859,
      370, 694, 325, 240, 216, 257, 284, 549, 209, 884, 315, 70, 329, 793, 490, 274, 877, 162,
      749, 812, 684, 461, 334, 376, 849, 521, 307, 291, 803, 712, 19, 358, 399, 908, 103, 511,
      51, 8, 517, 225, 289, 470, 637, 731, 66, 255, 917, 269, 463, 830, 730, 433, 848, 585,
      136, 538, 906, 90, 2, 290, 743, 199, 655, 903, 329, 49, 802, 580, 355, 588, 188, 462, 10,
      134, 628, 320, 479, 130, 739, 71, 263, 318, 374, 601, 192, 605, 142, 673, 687, 234, 722,
      384, 177, 752, 607, 640, 455, 193, 689, 707, 805, 641, 48, 60, 732, 621, 895, 544, 261,
      852, 655, 309, 697, 755, 756, 60, 231, 773, 434, 421, 726, 528, 503, 118, 49, 795, 32,
      144, 500, 238, 836, 394, 280, 566, 319, 9, 647, 550, 73, 914, 342, 126, 32, 681, 331,
      792, 620, 60, 609, 441, 180, 791, 893, 754, 605, 383, 228, 749, 760, 213, 54, 297, 134,
      54, 834, 299, 922, 191, 910, 532, 609, 829, 189, 20, 167, 29, 872, 449, 83, 402, 41, 656,
      505, 579, 481, 173, 404, 251, 688, 95, 497, 555, 642, 543, 307, 159, 924, 558, 648, 55,
      497, 10>>
ECC_L8 ==
    <<352, 77, 373, 504, 35, 599, 428, 207, 409, 574, 118, 498, 285, 380, 350, 492, 197, 265,
      920, 155, 914, 299, 229, 643, 294, 871, 306, 88, 87, 193, 352, 781, 846, 75, 327, 520,
      435, 543, 203, 666, 249, 346, 781, 621, 640, 268, 794, 534, 539, 781, 408, 390, 644, 102,
      476, 499, 290, 632, 545, 37, 858, 916, 552, 41, 542, 289, 122, 272, 383, 800, 485, 98,
      752, 472, 761, 107, 784, 860, 658, 741, 290, 204, 681, 407, 855, 85, 99, 62, 482, 180,
      20, 297, 451, 593, 913, 142, 808, 684, 287, 536, 561, 76, 653, 899, 729, 567, 744, 390,
      513, 192, 516, 258, 240, 518, 794, 395, 768, 848, 51, 610, 384, 168, 190, 826, 328, 596,
      786, 303, 570, 381, 415, 641, 156, 237, 151, 429, 531, 207, 676, 710, 89, 168, 304, 402,
      40, 708, 575, 162, 864, 229, 65, 861, 841, 512, 164, 477, 221, 92, 358, 785, 288, 357,
      850, 836, 827, 736, 707, 94, 8, 494, 114, 521, 2, 499, 851, 543, 152, 729, 771, 95, 248,
      361, 578, 323, 856, 797, 289, 51, 684, 466, 533, 820, 669, 45, 902, 452, 167, 342, 244,
      173, 35, 463, 651, 51, 699, 591, 452, 578, 37, 124, 298, 332, 552, 43, 427, 119, 662,
      777, 475, 850, 764, 364, 578, 911, 283, 711, 472, 420, 245, 288, 594, 394, 511, 327, 589,
      777, 699, 688, 43, 408, 842, 383, 721, 521, 560, 644, 714, 559, 62, 145, 873, 663, 713,
      159, 672, 729, 624, 59, 193, 417, 158, 209, 563, 564, 343, 693, 109, 608, 563, 365, 181,
      772, 677, 310, 248, 353, 708, 410, 579, 870, 617, 841, 632, 860, 289, 536, 35, 777, 618,
      586, 424, 833, 77, 597, 346, 269, 757, 632, 695, 751, 331, 247, 184, 45, 787, 680, 18,
      66, 407, 369, 54, 492, 228, 613, 830, 922, 437, 519, 644, 905, 789, 420, 305, 441, 207,
      300, 892, 827, 141, 537, 381, 662, 513, 56, 252, 341, 242, 797, 838, 837, 720, 224, 307,
      631, 61, 87, 560, 310, 756, 665, 397, 808, 851, 309, 473, 795, 378, 31, 647, 915, 459,
      806, 590, 731, 425, 216, 548, 249, 321, 881, 699, 535, 673, 782, 210, 815, 905, 303, 843,
      922, 281, 73, 469, 791, 660, 162, 498, 308, 155, 422, 907, 817, 187, 62, 16, 425, 535,
      336, 286, 437, 375, 273, 610, 296, 183, 923, 116, 667, 751, 353, 62, 366, 691, 379, 687,
      842, 37, 357, 720, 742, 330, 5, 39, 923, 311, 424, 242, 749, 321, 54, 669, 316, 342, 299,
      534, 105, 667, 488, 640, 672, 576, 540, 316, 486, 721, 610, 46, 656, 447, 171, 616, 464,
      190, 531, 297, 321, 762, 752, 533, 175, 134, 14, 381, 433, 717, 45, 111, 20, 596, 284,
      736, 138, 646, 411, 877, 669, 141, 919, 45, 780, 407, 164, 332, 899, 165, 726, 600, 325,
      498, 655, 357, 752, 768, 223, 849, 647, 63, 310, 863, 251, 366, 304, 282, 738, 675, 410,
      389, 244, 31, 121, 303, 263>>
----------------------------------------------------------------------------
(* ecc.rs                                                                  *)

\* pub const fn ecc_count(level: u8) -> usize { 1 << (level + 1) }
ecc_count(lv) == 2 ^ (lv + 1)

\* the match of generate_ecc
Factors(lv) ==
    CASE lv = 0 -> ECC_L0
      [] lv = 1 -> ECC_L1
      [] lv = 2 -> ECC_L2
      [] lv = 3 -> ECC_L3
      [] lv = 4 -> ECC_L4
      [] lv = 5 -> ECC_L5
      [] lv = 6 -> ECC_L6
      [] lv = 7 -> ECC_L7
      [] lv = 8 -> ECC_L8

\* the body of "for i in (0..factors.len()).rev()" for one index i (0-based)
EccInnerStep(ecc, factors, t, i) ==
    LET n == Len(factors)
        factor == (t * factors[i + 1]) % 929
        d == IF i > 0 THEN ecc[(n - i) + 1] ELSE 0
    IN  [ecc EXCEPT ![(n - 1 - i) + 1] = (d + 929 - factor) % 929]

\* for i in (lo..=hi).rev() { ... }, updating ecc in place: the indices are
\* visited from hi down to lo (the upper half of the range, then the lower).
\* The test on Len(upper) only makes TLC compute the upper half before it
\* enters the lower one; an empty register has nothing to update.
RECURSIVE EccInnerRange(_, _, _, _, _)
EccInnerRange(ecc, factors, t, lo, hi) ==
    IF lo > hi THEN ecc
    ELSE IF lo = hi THEN EccInnerStep(ecc, factors, t, lo)
    ELSE LET mid == (lo + hi) \div 2
             upper == EccInnerRange(ecc, factors, t, mid + 1, hi)
         IN  IF Len(upper) = 0 THEN upper
             ELSE EccInnerRange(upper, factors, t, lo, mid)

\* for i in (0..factors.len()).rev() { ... }
EccInner(ecc, factors, t) == EccInnerRange(ecc, factors, t, 0, Len(factors) - 1)

\* for cw in data { ... }: the loop from data codeword k (1-based) on.
\* *cw + ecc[0] is a u16 addition: beyond 65535 it panics with overflow
\* checks and wraps without.
RECURSIVE EccData(_, _, _, _, _)
EccData(ecc, factors, data, k, chk) ==
    IF k > Len(data) THEN [ok |-> TRUE, ecc |-> ecc]
    ELSE LET sum == data[k] + ecc[1] IN
         IF sum >= U16 /\ chk THEN [ok |-> FALSE, ecc |-> ecc]
         ELSE EccData(EccInner(ecc, factors, (sum % U16) % 929),
                      factors, data, k + 1, chk)

\* for e in ecc { if *e != 0 { *e = 929 - *e; } }
EccNegate(ecc) == [j \in 1..Len(ecc) |-> IF ecc[j] # 0 THEN 929 - ecc[j] ELSE 0]

\* a plausible slip: the ECC region is not cleared before the convolution
generate_ecc_codewords_nofill(factors, cws, chk) ==
    LET n == Len(factors)
        total == Len(cws) - n
        data == SubSeq(cws, 1, total)
        r == EccData(SubSeq(cws, total + 1, Len(cws)), factors, data, 1, chk)
    IN  [ok |-> r.ok, cw |-> data \o EccNegate(r.ecc)]

\* fn generate_ecc_codewords(factors, codewords); requires Len(cws) >= Len(factors)
generate_ecc_codewords(factors, cws, chk) ==
    LET n == Len(factors)
        total == Len(cws) - n
        data == SubSeq(cws, 1, total)
        r == EccData(Zeros(n), factors, data, 1, chk)
    IN  [ok |-> r.ok, cw |-> data \o EccNegate(r.ecc)]

\* a plausible slip: the final negation is left out
generate_ecc_nonegate(cws, lv, chk) ==
    IF lv > MaxEccLevel \/ Len(cws) < Len(Factors(lv)) THEN [ok |-> FALSE, cw |-> cws]
    ELSE LET n == Len(Factors(lv))
             data == SubSeq(cws, 1, Len(cws) - n)
             r == EccData(Zeros(n), Factors(lv), data, 1, chk)
         IN  [ok |-> r.ok, cw |-> data \o r.ecc]

\* pub fn generate_ecc(codewords, level): both assert! failures are panics
generate_ecc(cws, lv, chk) ==
    IF lv > MaxEccLevel THEN [ok |-> FALSE, cw |-> cws]
    ELSE IF Len(cws) < Len(Factors(lv)) THEN [ok |-> FALSE, cw |-> cws]
    ELSE generate_ecc_codewords(Factors(lv), cws, chk)

\* MicroPDF417: the variant table and the combined factor table are in
\* tables.rs.  M_PDF417_VARIANTS holds, from 2 * M_PDF417_VARIANTS_COUNT, the
\* number of ECC codewords of each variant (1 column: 11..28 rows, 2 columns:
\* 8..26 rows, 3 columns: 6..44 rows, 4 columns: 4..44 rows).
M_PDF417_VARIANTS_COUNT == 34

MicroEccCounts ==
    <<7, 7, 7, 8, 8, 8,
      8, 9, 9, 10, 11, 13, 15,
      12, 14, 16, 18, 21, 26, 32, 38, 44, 50,
      8, 12, 14, 16, 18, 21, 26, 32, 38, 44, 50>>

\* M_PDF417_VARIANTS[2 * M_PDF417_VARIANTS_COUNT + variant], variant 0-based
MicroEccCount(variant) == MicroEccCounts[variant + 1]

\* g * (x - r) mod 929, coefficients lowest order first
PolyTimesRoot(g, r) ==
    [i \in 1..(Len(g) + 1) |->
        ((IF i > 1 THEN g[i - 1] ELSE 0) + 929 * 929
           - (IF i <= Len(g) THEN g[i] * r ELSE 0)) % 929]

\* the product of (x - 3^j) for j = from..k, times g; root = 3^from mod 929
RECURSIVE PolyRoots(_, _, _, _)
PolyRoots(g, root, from, k) ==
    IF from > k \/ Len(g) = 0 THEN g
    ELSE PolyRoots(PolyTimesRoot(g, root), (root * 3) % 929, from + 1, k)

\* ECC_MICRO[k..(k + count)]: the count factors of a variant, the
\* coefficients of the generator polynomial of degree count without the
\* leading one
MicroFactors(count) == SubSeq(PolyRoots(<<1>>, 3, 1, count), 1, count)

\* pub fn generate_micro_ecc(codewords, count, k): both assert! are panics
generate_micro_ecc(cws, count, chk) ==
    IF count = 0 \/ Len(cws) < count THEN [ok |-> FALSE, cw |-> cws]
    ELSE generate_ecc_codewords(MicroFactors(count), cws, chk)

----------------------------------------------------------------------------
(* ecc.rs, mod tests: the golden vectors                                   *)

INPUT_DATA ==
    <<16, 902, 1, 278, 827, 900, 295, 902, 2, 326, 823, 544, 900, 149, 900, 900>>

EXPECTED_L0 ==
    <<156, 765>>
EXPECTED_L1 ==
    <<168, 875, 63, 355>>
EXPECTED_L2 ==
    <<628, 715, 393, 299, 863, 601, 169, 708>>
EXPECTED_L3 ==
    <<232, 176, 793, 616, 476, 406, 855, 445, 84, 518, 522, 721, 607, 2, 42, 578>>
EXPECTED_L4 ==
    <<281, 156, 276, 668, 44, 252, 877, 30, 549, 856, 773, 639, 420, 330, 693, 329, 283, 723,
      480, 482, 102, 925, 535, 892, 374, 472, 837, 331, 343, 608, 390, 364>>
EXPECTED_L5 ==
    <<31, 850, 18, 870, 53, 477, 837, 130, 533, 186, 266, 450, 39, 492, 542, 653, 499, 887,
      618, 103, 364, 313, 906, 396, 270, 735, 593, 81, 557, 712, 810, 48, 167, 533, 205, 577,
      503, 126, 449, 189, 859, 471, 493, 849, 554, 76, 878, 893, 168, 497, 251, 704, 311, 650,
      283, 268, 462, 223, 659, 763, 176, 34, 544, 304>>
EXPECTED_L6 ==
    <<345, 775, 909, 489, 650, 568, 869, 577, 574, 349, 885, 317, 492, 222, 783, 451, 647, 385,
      168, 366, 118, 655, 643, 551, 179, 880, 880, 752, 132, 206, 765, 862, 727, 240, 32, 266,
      911, 287, 813, 437, 868, 201, 681, 867, 567, 398, 508, 564, 504, 676, 785, 554, 831, 566,
      424, 93, 515, 275, 61, 544, 272, 621, 374, 922, 779, 663, 789, 295, 631, 536, 755, 465,
      485, 416, 76, 412, 76, 431, 28, 614, 767, 419, 600, 779, 94, 584, 647, 846, 121, 97, 790,
      205, 424, 793, 263, 271, 694, 522, 437, 817, 382, 164, 113, 849, 178, 602, 554, 261, 415,
      737, 401, 675, 203, 271, 649, 120, 765, 209, 522, 687, 420, 32, 60, 266, 270, 228, 304,
      270>>
EXPECTED_L7 ==
    <<142, 203, 799, 4, 105, 137, 793, 914, 225, 636, 60, 171, 490, 180, 414, 141, 399, 599,
      829, 288, 108, 268, 444, 481, 795, 146, 655, 778, 189, 32, 597, 206, 208, 711, 845, 608,
      642, 636, 540, 795, 845, 466, 492, 659, 138, 800, 912, 171, 92, 438, 225, 301, 777, 449,
      230, 448, 326, 182, 892, 681, 543, 582, 732, 758, 162, 587, 685, 378, 646, 356, 354, 25,
      839, 839, 556, 253, 501, 771, 745, 616, 473, 293, 669, 822, 613, 684, 229, 265, 110, 438,
      144, 727, 317, 605, 414, 497, 82, 278, 267, 323, 43, 894, 624, 282, 790, 579, 430, 255,
      802, 553, 922, 604, 68, 692, 809, 909, 663, 589, 735, 670, 298, 158, 201, 68, 124, 64,
      67, 338, 694, 373, 225, 579, 309, 699, 920, 432, 717, 72, 126, 819, 142, 755, 473, 630,
      331, 758, 730, 65, 359, 451, 236, 16, 56, 31, 87, 587, 125, 385, 384, 197, 352, 383, 173,
      271, 38, 558, 810, 260, 521, 680, 7, 319, 650, 334, 695, 708, 0, 562, 365, 204, 114, 185,
      560, 746, 767, 449, 797, 688, 63, 135, 818, 805, 3, 536, 908, 532, 400, 698, 49, 212,
      630, 93, 157, 275, 3, 20, 611, 179, 302, 282, 876, 665, 241, 206, 474, 80, 217, 460, 462,
      751, 719, 571, 536, 794, 522, 385, 598, 756, 162, 212, 758, 662, 361, 223, 587, 857, 503,
      382, 615, 86, 283, 541, 847, 518, 406, 736, 486, 408, 226, 342, 784, 772, 211, 888, 234,
      335>>
EXPECTED_L8 ==
    <<538, 446, 840, 510, 163, 708, 177, 666, 423, 600, 707, 913, 770, 571, 156, 683, 676, 697,
      898, 776, 128, 851, 163, 854, 135, 661, 880, 279, 92, 324, 397, 207, 379, 223, 574, 9,
      70, 858, 878, 579, 61, 551, 261, 388, 315, 856, 266, 865, 923, 38, 313, 62, 381, 198,
      265, 256, 385, 878, 347, 532, 821, 53, 855, 225, 697, 826, 263, 334, 207, 565, 460, 496,
      705, 599, 383, 289, 178, 168, 401, 268, 555, 190, 922, 284, 180, 810, 891, 832, 636, 813,
      894, 495, 701, 484, 204, 793, 129, 164, 444, 228, 636, 98, 809, 57, 736, 697, 727, 534,
      889, 480, 898, 773, 234, 851, 880, 843, 714, 443, 412, 489, 578, 468, 367, 663, 11, 686,
      319, 352, 345, 670, 106, 106, 219, 466, 439, 350, 538, 66, 852, 175, 465, 731, 332, 110,
      926, 491, 18, 422, 736, 797, 624, 376, 728, 526, 735, 200, 502, 923, 789, 529, 923, 706,
      384, 869, 172, 548, 520, 463, 813, 384, 793, 231, 190, 653, 864, 351, 400, 525, 487, 828,
      654, 307, 141, 638, 770, 775, 282, 54, 758, 197, 492, 320, 86, 790, 275, 237, 923, 25,
      591, 605, 61, 824, 79, 631, 532, 337, 867, 423, 340, 597, 682, 923, 287, 408, 503, 361,
      881, 196, 468, 759, 746, 389, 124, 784, 198, 865, 538, 451, 178, 772, 653, 121, 497, 598,
      711, 716, 241, 159, 429, 88, 799, 761, 639, 105, 54, 807, 351, 435, 793, 873, 360, 8,
      881, 479, 693, 576, 849, 875, 771, 621, 134, 863, 8, 171, 799, 924, 103, 63, 491, 538,
      597, 855, 697, 499, 7, 886, 286, 85, 107, 220, 319, 124, 197, 150, 729, 899, 585, 540,
      676, 414, 256, 856, 596, 259, 882, 436, 26, 273, 753, 127, 679, 390, 654, 42, 276, 420,
      247, 629, 116, 803, 131, 25, 403, 645, 462, 897, 151, 622, 108, 167, 227, 831, 887, 662,
      739, 263, 829, 56, 624, 317, 908, 378, 39, 393, 861, 338, 202, 179, 907, 109, 360, 736,
      554, 342, 594, 125, 433, 394, 195, 698, 844, 912, 530, 842, 337, 294, 528, 231, 735, 93,
      8, 579, 42, 148, 609, 233, 782, 887, 888, 915, 620, 78, 137, 161, 282, 217, 775, 564, 33,
      195, 36, 584, 679, 775, 476, 309, 230, 303, 708, 143, 679, 502, 814, 193, 508, 532, 542,
      580, 603, 641, 338, 361, 542, 537, 810, 394, 764, 136, 167, 611, 881, 775, 267, 433, 142,
      202, 828, 363, 101, 728, 660, 583, 483, 786, 717, 190, 809, 422, 567, 741, 695, 310, 120,
      177, 47, 494, 345, 508, 16, 639, 402, 625, 286, 298, 358, 54, 705, 916, 291, 424, 375,
      883, 655, 675, 498, 498, 884, 862, 365, 310, 805, 763, 855, 354, 777, 543, 53, 773, 120,
      408, 234, 728, 438, 914, 3, 670, 546, 465, 449, 923, 51, 546, 709, 648, 96, 320, 682,
      326, 848, 234, 855, 791, 20, 97, 901, 351, 317, 764, 767, 312, 206, 139, 610, 578, 646,
      264, 389, 238, 675, 595, 430, 88>>
EXPECTED(lv) ==
    CASE lv = 0 -> EXPECTED_L0
      [] lv = 1 -> EXPECTED_L1
      [] lv = 2 -> EXPECTED_L2
      [] lv = 3 -> EXPECTED_L3
      [] lv = 4 -> EXPECTED_L4
      [] lv = 5 -> EXPECTED_L5
      [] lv = 6 -> EXPECTED_L6
      [] lv = 7 -> EXPECTED_L7
      [] lv = 8 -> EXPECTED_L8

\* let mut data = [0u16; INPUT_DATA.len() + EXPECTED.len()]; data[..16] = INPUT_DATA
GoldenInput(lv) == INPUT_DATA \o Zeros(ecc_count(lv))

----------------------------------------------------------------------------
(* Specification SpecEcc: generate_ecc applied to bounded inputs           *)

\* enumerated inputs: data of CwSamples (one of them possibly out of the
\* codeword range), followed by N slots of prior content
EccFreeInputs(lv) ==
    {d \o Fill(ecc_count(lv), g) :
        d \in SeqsUpTo(CwSamples, MaxDataLen) \cup {<<65535>>, <<928, 65535>>},
        g \in EccGarbage}
    \cup {Fill(n, 5) : n \in 0..(ecc_count(lv) - 1)}

InitEcc ==
    /\ checks \in BOOLEAN
    /\ level \in 0..MaxEccLevel
    /\ codewords \in (IF level <= MaxFreeLevel THEN EccFreeInputs(level) ELSE {})
                     \cup {GoldenInput(level)}
    /\ ecc_in = codewords
    /\ ecc_pc = "ready"
    /\ EncIdle
    /\ SymIdle

GenerateEcc ==
    /\ ecc_pc = "ready"
    /\ LET r == generate_ecc(codewords, level, checks) IN
       /\ codewords' = r.cw
       /\ ecc_pc' = IF r.ok THEN "done" ELSE "panic"
    /\ UNCHANGED <<checks, level, ecc_in, encVars, symVars>>

NextEcc == GenerateEcc

SpecEcc == InitEcc /\ [][NextEcc]_vars

----------------------------------------------------------------------------
(* C1: generate_ecc against the reference recurrence                       *)

\* one data codeword of the reference recurrence, every slot computed from
\* the previous contents of the register
RefStep(e, f, cw) ==
    LET n == Len(f)
        t == (cw + e[1]) % 929
    IN  [j \in 1..n |->
            ((IF j < n THEN e[j + 1] ELSE 0) + 929 - ((t * f[n - j + 1]) % 929)) % 929]

RECURSIVE RefFold(_, _, _, _)
RefFold(e, f, data, k) ==
    IF k > Len(data) THEN e ELSE RefFold(RefStep(e, f, data[k]), f, data, k + 1)

RefEcc(data, lv) ==
    LET e == RefFold(Zeros(ecc_count(lv)), Factors(lv), data, 1)
    IN  [j \in 1..Len(e) |-> IF e[j] = 0 THEN 0 ELSE 929 - e[j]]

InCodewordRange(s) == \A k \in 1..Len(s) : s[k] \in 0..928

EccPre == /\ level \in 0..MaxEccLevel
          /\ Len(ecc_in) >= ecc_count(level)
          /\ InCodewordRange(SubSeq(ecc_in, 1, Len(ecc_in) - ecc_count(level)))

\* C1: for every level 0..8 and every slice of length len >= N = 2^(level+1)
\* whose data codewords are in [0,928], generate_ecc returns and the last N
\* slots hold the result of the reference recurrence over the first len-N.
C1_EccMatchesReference ==
    (ecc_pc # "ready" /\ EccPre) =>
        /\ ecc_pc = "done"
        /\ Len(codewords) = Len(ecc_in)
        /\ SubSeq(codewords, Len(ecc_in) - ecc_count(level) + 1, Len(ecc_in))
             = RefEcc(SubSeq(ecc_in, 1, Len(ecc_in) - ecc_count(level)), level)

C1_Witness ==
    /\ ecc_pc = "done"
    /\ level = 2
    /\ Len(ecc_in) = MaxDataLen + ecc_count(level)
    /\ ecc_in[1] = 928
    /\ ecc_in[Len(ecc_in)] = 77
    /\ \E k \in 1..Len(codewords) : codewords[k] # ecc_in[k]

\* C2: for each level 0..8, generate_ecc over INPUT_DATA followed by
\* 2^(level+1) free slots leaves the expected literal ECC sequence of that
\* level in those slots.
C2_GoldenVectors ==
    (ecc_pc # "ready" /\ ecc_in = GoldenInput(level)) =>
        /\ ecc_pc = "done"
        /\ SubSeq(codewords, Len(INPUT_DATA) + 1, Len(codewords)) = EXPECTED(level)
        /\ (level = 0 => SubSeq(codewords, 17, 18) = <<156, 765>>)
        /\ (level = 1 => SubSeq(codewords, 17, 20) = <<168, 875, 63, 355>>)
        /\ (level = 2 => SubSeq(codewords, 17, 24)
                            = <<628, 715, 393, 299, 863, 601, 169, 708>>)

C2_Witness ==
    /\ ecc_pc = "done"
    /\ level = MaxEccLevel
    /\ ecc_in = GoldenInput(MaxEccLevel)
    /\ Len(codewords) = Len(INPUT_DATA) + 512

----------------------------------------------------------------------------
(* Fixed-width unsigned integers (u64, U160). TLC's integers are 32 bits   *)
(* wide, so a wide integer is a little-endian sequence of 16-bit limbs;    *)
(* every operation below keeps the width of its operand, as the machine    *)
(* operation does, and reports what was lost.                              *)

\* one limb holds 16 bits
Limb == 65536
\* u64: four limbs (append_num), U160: ten limbs (append_ascii)
U64Limbs == 4
U160Limbs == 10

BigZero(w) == [k \in 1..w |-> 0]
BigOne(w) == [k \in 1..w |-> IF k = 1 THEN 1 ELSE 0]
BigIsZero(a) == \A k \in 1..Len(a) : a[k] = 0

\* a * m + c on the limbs from k up, carry c coming in; m <= 1000
RECURSIVE BigMulAddFrom(_, _, _, _)
BigMulAddFrom(a, m, c, k) ==
    IF k > Len(a) THEN [v |-> <<>>, carry |-> c]
    ELSE LET x == a[k] * m + c
             rest == BigMulAddFrom(a, m, x \div Limb, k + 1)
         IN  [v |-> <<x % Limb>> \o rest.v, carry |-> rest.carry]

\* (a * m + c) mod 2^width, and whether bits were lost
BigMulAdd(a, m, c) ==
    LET r == BigMulAddFrom(a, m, c, 1) IN [v |-> r.v, lost |-> r.carry # 0]

\* a + b on the limbs from k up
RECURSIVE BigAddFrom(_, _, _, _)
BigAddFrom(a, b, c, k) ==
    IF k > Len(a) THEN [v |-> <<>>, carry |-> c]
    ELSE LET x == a[k] + b[k] + c
             rest == BigAddFrom(a, b, x \div Limb, k + 1)
         IN  [v |-> <<x % Limb>> \o rest.v, carry |-> rest.carry]

\* (a + b) mod 2^width, and whether the sum overflowed the width
BigAdd(a, b) ==
    LET r == BigAddFrom(a, b, 0, 1) IN [v |-> r.v, lost |-> r.carry # 0]

\* a << n (bits shifted out are dropped, as << does for n below the width),
\* one bit at a time; zero stays zero
RECURSIVE BigShl(_, _)
BigShl(a, n) ==
    IF n = 0 \/ BigIsZero(a) THEN a ELSE BigShl(BigMulAdd(a, 2, 0).v, n - 1)

\* a / d and a % d for a small divisor d (d <= 1000), from limb k down
RECURSIVE BigDivFrom(_, _, _, _)
BigDivFrom(a, d, rem, k) ==
    IF k = 0 THEN [q |-> <<>>, r |-> rem]
    ELSE LET x == rem * Limb + a[k]
             rest == BigDivFrom(a, d, x % d, k - 1)
         IN  [q |-> rest.q \o <<x \div d>>, r |-> rest.r]

BigDiv(a, d) == BigDivFrom(a, d, 0, Len(a))

\* the value of a decimal digit string (most significant digit first) in
\* `w` limbs; lost when the value does not fit the width
RECURSIVE BigFromDecimalFrom(_, _, _)
BigFromDecimalFrom(acc, ds, k) ==
    IF acc.lost \/ k > Len(ds) THEN acc
    ELSE BigFromDecimalFrom(BigMulAdd(acc.v, 10, ds[k]), ds, k + 1)

BigFromDecimal(ds, w) == BigFromDecimalFrom([v |-> BigZero(w), lost |-> FALSE], ds, 1)

\* the base-900 digits of a, most significant first, no leading zeros
RECURSIVE BigBase900(_)
BigBase900(a) ==
    IF BigIsZero(a) THEN <<>>
    ELSE LET qr == BigDiv(a, 900) IN BigBase900(qr.q) \o <<qr.r>>

----------------------------------------------------------------------------
(* high_level.rs: constants                                                *)

M_LATCH_TEXT == 900
M_LATCH_BYTE == 901
M_LATCH_NUMERIC == 902
M_SHIFT_BYTE == 913
M_LATCH_BYTE_M6 == 924
ECI_CODE_PAGE == 927
CW_PADDING == M_LATCH_TEXT

\* b'&', b'\r', b'\t', b',', b':', b'#', b'-', b'.', b'$', b'/', b'+', b'%', b'*', b'=', b'^'
MIXED_CHAR_SET == <<38, 13, 9, 44, 58, 35, 45, 46, 36, 47, 43, 37, 42, 61, 94>>

\* b';', b'<', b'>', b'@', b'[', b'\\', b']', b'_', b'`', b'~', b'!', b'\r', b'\t',
\* b',', b':', b'\n', b'-', b'.', b'$', b'/', b'"', b'|', b'*', b'(', b')', b'?',
\* b'{', b'}', b'\''
PUNC_CHAR_SET ==
    <<59, 60, 62, 64, 91, 92, 93, 95, 96, 126, 33, 13, 9,
      44, 58, 10, 45, 46, 36, 47, 34, 124, 42, 40, 41, 63,
      123, 125, 39>>

\* the modes of last_mode: 0 Upper, 1 Lower, 2 Mixed, 3 Punc, 4 Numeric, 5 Byte
Modes == 0..5

\* Option<u8>: None is the empty sequence, Some(v) is <<v>>
None == <<>>
Some(v) == <<v>>

\* iter().position(|&r| r == c): 0-based position of c in set, -1 when absent
Position(set, c) ==
    IF \E p \in 1..Len(set) : set[p] = c
    THEN (CHOOSE p \in 1..Len(set) : set[p] = c /\ \A q \in 1..(p - 1) : set[q] # c) - 1
    ELSE -1

is_ascii_uppercase(c) == c \in 65..90
is_ascii_lowercase(c) == c \in 97..122
is_ascii_digit(c) == c \in 48..57

----------------------------------------------------------------------------
(* high_level.rs: PDF417Encoder. An encoder value is the record            *)
(* [storage, used, micro, last_mode]; an operation yields the record       *)
(* [fault, storage, used, last_mode], where fault is "none" when the call  *)
(* returns and names the panic otherwise ("bounds": index out of range,    *)
(* "overflow": arithmetic overflow with overflow checks on, "assert": a    *)
(* failed assert!, "unreachable": an unreachable! arm). A panic aborts     *)
(* the construction of the symbol.                                         *)

Enc(st, u, mi, lm) == [storage |-> st, used |-> u, micro |-> mi, last_mode |-> lm]

Returned(st, u, lm) == [fault |-> "none", storage |-> st, used |-> u, last_mode |-> lm]
Panicked(e, why) ==
    [fault |-> why, storage |-> e.storage, used |-> e.used, last_mode |-> e.last_mode]

\* pub fn new(storage, micro): requires storage.len() > 0
new(st, mi) == IF mi THEN Enc(st, 0, mi, 5) ELSE Enc(st, 1, mi, 0)

\* pub fn count(&self)
count(e) == e.used

\* pub fn capacity(&self)
capacity(e) == Len(e.storage)

\* A write cursor over the buffer: [fault, out, i, right, mode, k].
\* out[i] = v; i += 1 (a store past the end of the slice panics)
Put(w, v) ==
    IF w.fault # "none" THEN w
    ELSE IF w.i >= Len(w.out) THEN [w EXCEPT !.fault = "bounds"]
    ELSE [w EXCEPT !.out[w.i + 1] = v, !.i = w.i + 1]

\* out[idx] = v, the cursor stays
Store(w, idx, v) ==
    IF w.fault # "none" THEN w
    ELSE IF idx < 0 \/ idx >= Len(w.out) THEN [w EXCEPT !.fault = "bounds"]
    ELSE [w EXCEPT !.out[idx + 1] = v]

Cursor(e) ==
    [fault |-> "none", out |-> e.storage, i |-> e.used, right |-> FALSE,
     mode |-> e.last_mode, k |-> 0]

\* while n > 0 { (q, r) = (n / 900, n % 900); n = q;
\*               storage[base + nb - count - 1] = r; count += 1 }
RECURSIVE WriteBase900(_, _, _, _, _)
WriteBase900(w, n, base, nb, cnt) ==
    IF w.fault # "none" \/ BigIsZero(n) THEN w
    ELSE LET qr == BigDiv(n, 900)
         IN  WriteBase900(Store(w, base + nb - cnt - 1, qr.r), qr.q, base, nb, cnt + 1)

\* append_num, lines 158-165: while val > 0 { p1 += p1 << 2; val /= 10; digits += 1 }
\* acc = [p1, digits, lost]; p1 += ... is a u64 addition, which panics on
\* overflow with overflow checks (chk) and wraps without
RECURSIVE NumScan(_, _, _)
NumScan(val, acc, chk) ==
    IF (acc.lost /\ chk) \/ BigIsZero(val) THEN acc
    ELSE LET s == BigAdd(acc.p1, BigShl(acc.p1, 2))
         IN  NumScan(BigDiv(val, 10).q,
                     [p1 |-> s.v, digits |-> acc.digits + 1, lost |-> acc.lost \/ s.lost],
                     chk)

NumScanStart == [p1 |-> BigOne(U64Limbs), digits |-> 0, lost |-> FALSE]

\* a plausible slip: the leading one is left out (n is converted as it is)
append_num_noleading(e, n, chk) ==
    LET latch == e.last_mode # 4
        w0 == Cursor(e)
        w1 == IF latch THEN Put(w0, M_LATCH_NUMERIC) ELSE w0
        sc == NumScan(n, NumScanStart, chk)
        nb == sc.digits \div 3 + 1
        w2 == WriteBase900(w1, n, w1.i, nb, 0)
    IN  IF w2.fault # "none" THEN Panicked(e, w2.fault)
        ELSE Returned(w2.out, w1.i + nb, 4)

\* pub fn append_num(mut self, mut n: u64) -> Self; n is a u64 in limbs.
\* n += p1 is a u64 addition: it panics with overflow checks and wraps
\* without; p1 <<= digits silently drops the bits shifted out.
append_num(e, n, chk) ==
    LET latch == e.last_mode # 4
        w0 == Cursor(e)
        w1 == IF latch THEN Put(w0, M_LATCH_NUMERIC) ELSE w0
        sc == NumScan(n, NumScanStart, chk)
        p1 == BigShl(sc.p1, sc.digits)
        sum == BigAdd(n, p1)
        nb == sc.digits \div 3 + 1
        w2 == WriteBase900(w1, sum.v, w1.i, nb, 0)
    IN  IF w1.fault # "none" THEN Panicked(e, w1.fault)
        ELSE IF chk /\ (sc.lost \/ sum.lost) THEN Panicked(e, "overflow")
        ELSE IF w2.fault # "none" THEN Panicked(e, w2.fault)
        ELSE Returned(w2.out, w1.i + nb, 4)

\* for n in 0..6 { s = (s << 8) + bytes[k + n] as u64 }; k is 0-based
RECURSIVE PackSix(_, _, _, _)
PackSix(s, bytes, k, n) ==
    IF n = 6 THEN s ELSE PackSix(BigMulAdd(s, 256, bytes[k + n + 1]).v, bytes, k, n + 1)

\* for n in 0..5 { (q, r) = (s / 900, s % 900); storage[i + 4 - n] = r; s = q }
RECURSIVE FiveCodewords(_, _, _)
FiveCodewords(w, s, n) ==
    IF w.fault # "none" \/ n = 5 THEN w
    ELSE LET qr == BigDiv(s, 900)
         IN  FiveCodewords(Store(w, w.i + 4 - n, qr.r), qr.q, n + 1)

\* while bytes.len() - k >= 6 { pack six bytes; append five codewords; i += 5; k += 6 }
RECURSIVE ByteGroups(_, _)
ByteGroups(w, bytes) ==
    IF w.fault # "none" \/ Len(bytes) - w.k < 6 THEN w
    ELSE LET s == PackSix(BigZero(U64Limbs), bytes, w.k, 0)
             w1 == FiveCodewords(w, s, 0)
         IN  ByteGroups([w1 EXCEPT !.i = w1.i + 5, !.k = w1.k + 6], bytes)

\* while k < bytes.len() { storage[i] = bytes[k]; k += 1; i += 1 }
RECURSIVE ByteRest(_, _)
ByteRest(w, bytes) ==
    IF w.fault # "none" \/ w.k >= Len(bytes) THEN w
    ELSE LET w1 == Put(w, bytes[w.k + 1])
         IN  ByteRest([w1 EXCEPT !.k = w1.k + 1], bytes)

\* a plausible slip: the latch does not depend on the length (always 901)
append_bytes_latch901(e, bytes) ==
    LET w0 == Cursor(e)
        w1 == IF Len(bytes) > 1
              THEN ByteGroups([Put(w0, M_LATCH_BYTE) EXCEPT !.mode = 5], bytes)
              ELSE IF e.last_mode < 4 THEN Put(w0, M_SHIFT_BYTE)
              ELSE [Put(w0, M_LATCH_BYTE) EXCEPT !.mode = 5]
        w2 == ByteRest(w1, bytes)
    IN  IF w2.fault # "none" THEN Panicked(e, w2.fault)
        ELSE Returned(w2.out, w2.i, w2.mode)

\* a plausible slip: a single byte is always shifted (913), whatever the mode
append_bytes_shift913(e, bytes) ==
    LET w0 == Cursor(e)
        w1 == IF Len(bytes) > 1
              THEN ByteGroups(
                     [Put(w0, IF Len(bytes) % 6 = 0 THEN M_LATCH_BYTE_M6 ELSE M_LATCH_BYTE)
                        EXCEPT !.mode = 5], bytes)
              ELSE Put(w0, M_SHIFT_BYTE)
        w2 == ByteRest(w1, bytes)
    IN  IF w2.fault # "none" THEN Panicked(e, w2.fault)
        ELSE Returned(w2.out, w2.i, w2.mode)

\* pub fn append_bytes(mut self, bytes: &[u8]) -> Self
append_bytes(e, bytes) ==
    LET w0 == Cursor(e)
        w1 == IF Len(bytes) > 1
              THEN ByteGroups(
                     [Put(w0, IF Len(bytes) % 6 = 0 THEN M_LATCH_BYTE_M6 ELSE M_LATCH_BYTE)
                        EXCEPT !.mode = 5], bytes)
              ELSE IF e.last_mode < 4 THEN Put(w0, M_SHIFT_BYTE)
              ELSE [Put(w0, M_LATCH_BYTE) EXCEPT !.mode = 5]
        w2 == ByteRest(w1, bytes)
    IN  IF w2.fault # "none" THEN Panicked(e, w2.fault)
        ELSE Returned(w2.out, w2.i, w2.mode)

\* pub fn append_utf8(mut self, s: &str) -> Self; s as its UTF-8 bytes
append_utf8(e, bytes) ==
    LET w == Put(Put(Cursor(e), ECI_CODE_PAGE), 26)
    IN  IF w.fault # "none" THEN Panicked(e, w.fault)
        ELSE append_bytes(Enc(w.out, w.i, e.micro, e.last_mode), bytes)

\* pub fn append_codeword(mut self, codeword: u16) -> Self
append_codeword(e, cw) ==
    LET w == Put(Cursor(e), cw)
    IN  IF w.fault # "none" THEN Panicked(e, w.fault)
        ELSE Returned(w.out, w.i, e.last_mode)

\* pub fn append_raw(mut self, codewords: &[u16]) -> Self
\* (the slice storage[used..used+len] panics when it leaves the buffer)
append_raw(e, cws) ==
    IF e.used + Len(cws) > Len(e.storage) THEN Panicked(e, "bounds")
    ELSE Returned([j \in 1..Len(e.storage) |->
                      IF j > e.used /\ j <= e.used + Len(cws)
                      THEN cws[j - e.used] ELSE e.storage[j]],
                  e.used + Len(cws), e.last_mode)

----------------------------------------------------------------------------
(* high_level.rs: append_ascii                                             *)

\* push!(out, i, right, cw): two sub-codewords share one slot
Push(w, cw) ==
    IF w.fault # "none" THEN w
    ELSE IF w.i >= Len(w.out) THEN [w EXCEPT !.fault = "bounds"]
    ELSE IF w.right
         THEN [w EXCEPT !.out[w.i + 1] = (w.out[w.i + 1] * 30 + cw) % U16,
                        !.right = FALSE, !.i = w.i + 1]
         ELSE [w EXCEPT !.out[w.i + 1] = cw, !.right = TRUE]

\* push_sp!(out, i, right, cw): a pending half is completed with 29, then cw
\* takes a slot of its own
PushSp(w, cw) ==
    IF w.fault # "none" THEN w
    ELSE IF w.i >= Len(w.out) THEN [w EXCEPT !.fault = "bounds"]
    ELSE IF w.right
         THEN Put([w EXCEPT !.out[w.i + 1] = (w.out[w.i + 1] * 30 + 29) % U16,
                            !.right = FALSE, !.i = w.i + 1], cw)
         ELSE Put(w, cw)

SetMode(w, m) == [w EXCEPT !.mode = m]
Advance(w) == [w EXCEPT !.k = w.k + 1]
Unreachable(w) == IF w.fault # "none" THEN w ELSE [w EXCEPT !.fault = "unreachable"]

\* c if c.is_ascii_uppercase() => { ... }
AsciiUpper(w, s, c) ==
    LET w1 == CASE w.mode = 0 -> w
                [] w.mode = 1 ->
                     IF w.k + 1 < Len(s) /\ is_ascii_lowercase(s[w.k + 2])
                     THEN Push(w, 27)
                     ELSE SetMode(Push(Push(w, 29), 29), 0)
                [] w.mode = 2 -> SetMode(Push(w, 28), 0)
                [] w.mode = 3 -> SetMode(Push(w, 29), 0)
                [] OTHER -> Unreachable(w)
    IN  Advance(Push(w1, c - 65))

\* c if c.is_ascii_lowercase() => { ... }
AsciiLower(w, s, c) ==
    LET w1 == CASE w.mode \in {0, 2} -> SetMode(Push(w, 27), 1)
                [] w.mode = 1 -> w
                [] w.mode = 3 -> SetMode(Push(Push(w, 29), 27), 1)
                [] OTHER -> Unreachable(w)
    IN  Advance(Push(w1, c - 97))

\* while end < s.len() && end-k < 44 && s[end].is_ascii_digit() { end += 1 }
RECURSIVE DigitRunEnd(_, _, _)
DigitRunEnd(s, k, end) ==
    IF end < Len(s) /\ end - k < 44 /\ is_ascii_digit(s[end + 1])
    THEN DigitRunEnd(s, k, end + 1) ELSE end

\* while k < end { push!(out, i, right, s[k] - b'0'; k = k + 1) }
RECURSIVE PushDigits(_, _, _)
PushDigits(w, s, end) ==
    IF w.fault # "none" \/ w.k >= end THEN w
    ELSE PushDigits(Advance(Push(w, s[w.k + 1] - 48)), s, end)

\* for _ in 0..digits { p0 = p1; p0 <<= 2; p1 += p0 }
RECURSIVE TimesFive(_, _)
TimesFive(p1, n) ==
    IF n = 0 \/ BigIsZero(p1) THEN p1 ELSE TimesFive(BigAdd(p1, BigShl(p1, 2)).v, n - 1)

\* lines 299-317: b = s[k..end] read in base 10 (bytes_radix_, whose
\* overflow .expect() turns into a panic), plus 10^digits, in 160 bits
LeadingOne(s, k, end) ==
    LET digits == end - k
        b == BigFromDecimal([j \in 1..digits |-> s[k + j] - 48], U160Limbs)
        p1 == TimesFive(BigShl(BigOne(U160Limbs), digits), digits)
    IN  [v |-> BigAdd(b.v, p1).v, lost |-> b.lost]

\* a plausible slip: runs of 13 digits are already encoded in Numeric mode
AsciiDigit_lt13(w, s, c) ==
    LET end == DigitRunEnd(s, w.k, w.k + 1)
        digits == end - w.k
        w2 == IF digits < 13 /\ w.mode # 4
              THEN LET w1 == CASE w.mode \in {0, 1} -> SetMode(Push(w, 28), 2)
                               [] w.mode = 2 -> w
                               [] w.mode = 3 -> SetMode(Push(Push(w, 29), 28), 2)
                               [] OTHER -> Unreachable(w)
                   IN  PushDigits(w1, s, end)
              ELSE LET w1 == IF w.mode # 4
                             THEN SetMode(PushSp(w, M_LATCH_NUMERIC), 4) ELSE w
                       nb == digits \div 3 + 1
                       b == LeadingOne(s, w.k, end)
                       w3 == WriteBase900(w1, b.v, w1.i, nb, 0)
                   IN  IF w1.fault # "none" THEN w1
                       ELSE IF b.lost THEN [w1 EXCEPT !.fault = "expect"]
                       ELSE IF w3.fault # "none" THEN w3
                       ELSE [w3 EXCEPT !.k = end, !.i = w1.i + nb]
    IN  IF w2.fault = "none" /\ w2.mode = 4 /\ w2.k < Len(s)
           /\ ~is_ascii_digit(s[w2.k + 1])
        THEN SetMode(PushSp(w2, M_LATCH_TEXT), 0)
        ELSE w2

\* c if c.is_ascii_digit() => { ... }
AsciiDigit(w, s, c) ==
    LET end == DigitRunEnd(s, w.k, w.k + 1)
        digits == end - w.k
        w2 == IF digits <= 13 /\ w.mode # 4
              THEN LET w1 == CASE w.mode \in {0, 1} -> SetMode(Push(w, 28), 2)
                               [] w.mode = 2 -> w
                               [] w.mode = 3 -> SetMode(Push(Push(w, 29), 28), 2)
                               [] OTHER -> Unreachable(w)
                   IN  PushDigits(w1, s, end)
              ELSE LET w1 == IF w.mode # 4
                             THEN SetMode(PushSp(w, M_LATCH_NUMERIC), 4) ELSE w
                       nb == digits \div 3 + 1
                       b == LeadingOne(s, w.k, end)
                       w3 == WriteBase900(w1, b.v, w1.i, nb, 0)
                   IN  IF w1.fault # "none" THEN w1
                       ELSE IF b.lost THEN [w1 EXCEPT !.fault = "expect"]
                       ELSE IF w3.fault # "none" THEN w3
                       ELSE [w3 EXCEPT !.k = end, !.i = w1.i + nb]
    IN  IF w2.fault = "none" /\ w2.mode = 4 /\ w2.k < Len(s)
           /\ ~is_ascii_digit(s[w2.k + 1])
        THEN SetMode(PushSp(w2, M_LATCH_TEXT), 0)
        ELSE w2

\* b' ' => { ... }
AsciiSpace(w) ==
    LET w1 == IF w.mode = 3 THEN SetMode(Push(w, 29), 0) ELSE w
    IN  Advance(Push(w1, 26))

\* while end < s.len() && end-k < 3 && PUNC_CHAR_SET.contains(&s[end]) { end += 1 }
RECURSIVE PuncRunEnd(_, _, _)
PuncRunEnd(s, k, end) ==
    IF end < Len(s) /\ end - k < 3 /\ Position(PUNC_CHAR_SET, s[end + 1]) >= 0
    THEN PuncRunEnd(s, k, end + 1) ELSE end

\* c => { ... }: Mixed set, Punctuation set, or the byte fallback
AsciiOther(w, s, c) ==
    LET pm == Position(MIXED_CHAR_SET, c)
        pp == Position(PUNC_CHAR_SET, c)
    IN  IF pm >= 0 THEN
            LET w1 == CASE w.mode \in {0, 1} -> SetMode(Push(w, 28), 2)
                        [] w.mode = 2 -> w
                        [] w.mode = 3 /\ (pm \in 1..4 \/ pm \in 6..9) -> w
                        [] w.mode = 3 /\ ~(pm \in 1..4 \/ pm \in 6..9) ->
                             SetMode(Push(Push(w, 29), 28), 2)
                        [] OTHER -> Unreachable(w)
            IN  Advance(Push(w1, pm + 10))
        ELSE IF pp >= 0 THEN
            LET w1 == IF w.mode # 3
                      THEN IF PuncRunEnd(s, w.k, w.k + 1) - w.k >= 3
                           THEN SetMode(Push(IF w.mode # 2 THEN Push(w, 28) ELSE w, 25), 3)
                           ELSE Push(w, 29)
                      ELSE w
            IN  Advance(Push(w1, pp))
        ELSE
            \* if right { out[i] = out[i] * 30 + 29; i += 1; } (right is left as it is)
            LET w1 == IF ~w.right THEN w
                      ELSE IF w.i >= Len(w.out) THEN [w EXCEPT !.fault = "bounds"]
                      ELSE [w EXCEPT !.out[w.i + 1] = (w.out[w.i + 1] * 30 + 29) % U16,
                                     !.i = w.i + 1]
                w2 == Store(Store(w1, w1.i, M_SHIFT_BYTE), w1.i + 1, c)
            IN  IF w2.fault # "none" THEN w2
                ELSE Advance([w2 EXCEPT !.i = w1.i + 2])

\* one iteration of "while k < s.len() { let c = s[k]; match c { ... } }"
AsciiStep(w, s) ==
    LET c == s[w.k + 1] IN
    IF is_ascii_uppercase(c) THEN AsciiUpper(w, s, c)
    ELSE IF is_ascii_lowercase(c) THEN AsciiLower(w, s, c)
    ELSE IF is_ascii_digit(c) THEN AsciiDigit(w, s, c)
    ELSE IF c = 32 THEN AsciiSpace(w)
    ELSE AsciiOther(w, s, c)

RECURSIVE AsciiLoop(_, _)
AsciiLoop(w, s) ==
    IF w.fault # "none" \/ w.k >= Len(s) THEN w ELSE AsciiLoop(AsciiStep(w, s), s)

\* a plausible slip: the latch to text is written from Numeric mode only
AsciiEnter_numeric(e) ==
    IF e.last_mode = 4 THEN SetMode(Put(Cursor(e), M_LATCH_TEXT), 0) ELSE Cursor(e)

\* a plausible slip: the latch to text is written whatever the mode
AsciiEnter_always(e) == SetMode(Put(Cursor(e), M_LATCH_TEXT), 0)

\* lines 247-251: if mode == 4 || mode == 5 { out[i] = M_LATCH_TEXT; i += 1; mode = 0 }
AsciiEnter(e) ==
    IF e.last_mode \in {4, 5} THEN SetMode(Put(Cursor(e), M_LATCH_TEXT), 0) ELSE Cursor(e)

\* lines 379-382: if right { out[i] = out[i] * 30 + 29; i += 1 }
AsciiFlush(w) ==
    IF w.fault # "none" \/ ~w.right THEN w
    ELSE IF w.i >= Len(w.out) THEN [w EXCEPT !.fault = "bounds"]
    ELSE [w EXCEPT !.out[w.i + 1] = (w.out[w.i + 1] * 30 + 29) % U16, !.i = w.i + 1]

\* a plausible slip: the pending half slot is not completed at the end
append_ascii_noflush(e, s, chk) ==
    LET w == AsciiLoop(AsciiEnter(e), s)
    IN  IF w.fault # "none" THEN Panicked(e, w.fault)
        ELSE Returned(w.out, w.i, w.mode)

\* pub fn append_ascii(mut self, s: &str) -> Self; s as its bytes.
\* debug_assert!(s.is_ascii()) is checked in the debug profile only.
append_ascii(e, s, chk) ==
    IF chk /\ \E j \in 1..Len(s) : s[j] > 127 THEN Panicked(e, "assert")
    ELSE LET w == AsciiFlush(AsciiLoop(AsciiEnter(e), s))
         IN  IF w.fault # "none" THEN Panicked(e, w.fault)
             ELSE Returned(w.out, w.i, w.mode)

----------------------------------------------------------------------------
(* high_level.rs: seal, fit_ecc, fit_seal (the branches of a full symbol,  *)
(* micro = false)                                                          *)

\* self.storage[self.used..total].fill(CW_PADDING), guarded by used < total
Pad(st, u, total) ==
    [j \in 1..Len(st) |-> IF j > u /\ j <= total THEN CW_PADDING ELSE st[j]]

\* seal, lines 423-438: the MicroPDF417 branch; val is the variant.
\* capacity() - count is a usize subtraction: below zero it panics with
\* overflow checks, and without them the fill up to the wrapped total panics.
seal_micro(e, val, chk) ==
    IF val > 34 THEN Panicked(e, "assert")
    \* variant 34 passes the assert and reads the table one row further on;
    \* no specification hands it to seal
    ELSE IF val >= M_PDF417_VARIANTS_COUNT THEN Panicked(e, "table")
    ELSE IF Len(e.storage) < MicroEccCount(val)
         THEN Panicked(e, IF chk THEN "overflow" ELSE "bounds")
    ELSE LET cnt == MicroEccCount(val)
             total == Len(e.storage) - cnt
             st == IF e.used < total THEN Pad(e.storage, e.used, total) ELSE e.storage
             r == generate_micro_ecc(st, cnt, chk)
         IN  IF r.ok THEN Returned(r.cw, e.used, e.last_mode)
             ELSE Panicked(e, "overflow")

\* a plausible slip: the length indicator counts the used codewords only
seal_len_used(e, val, chk) ==
    IF e.micro THEN seal_micro(e, val, chk)
    ELSE IF val > MaxEccLevel THEN Panicked(e, "assert")
    ELSE IF Len(e.storage) < ecc_count(val)
         THEN Panicked(e, IF chk THEN "overflow" ELSE "bounds")
    ELSE LET total == Len(e.storage) - ecc_count(val)
             st1 == [e.storage EXCEPT ![1] = e.used % U16]
             st2 == IF e.used < total THEN Pad(st1, e.used, total) ELSE st1
             r == generate_ecc(st2, val, chk)
         IN  IF r.ok THEN Returned(r.cw, e.used, e.last_mode)
             ELSE Panicked(e, "overflow")

\* pub fn seal(self, val: u8) -> &'a mut [u16], lines 439-450.
\* ecc_count asserts level < 9. capacity() - ecc_count(level) is a usize
\* subtraction: below zero it panics with overflow checks, and without them
\* it wraps to a total beyond the buffer, so that the fill panics.
seal(e, val, chk) ==
    IF e.micro THEN seal_micro(e, val, chk)
    ELSE IF val > MaxEccLevel THEN Panicked(e, "assert")
    ELSE IF Len(e.storage) < ecc_count(val)
         THEN Panicked(e, IF chk THEN "overflow" ELSE "bounds")
    ELSE LET total == Len(e.storage) - ecc_count(val)
             st1 == [e.storage EXCEPT ![1] = total % U16]
             st2 == IF e.used < total THEN Pad(st1, e.used, total) ELSE st1
             r == generate_ecc(st2, val, chk)
         IN  IF r.ok THEN Returned(r.cw, e.used, e.last_mode)
             ELSE Panicked(e, "overflow")

\* while level > 0 && ecc::ecc_count(level - 1) > remaining { level -= 1 }
RECURSIVE FitLoop(_, _)
FitLoop(lv, remaining) ==
    IF lv > 0 /\ ecc_count(lv - 1) > remaining THEN FitLoop(lv - 1, remaining) ELSE lv

\* a plausible slip: >= in place of > (a level that fits exactly is refused)
RECURSIVE FitLoopGe(_, _)
FitLoopGe(lv, remaining) ==
    IF lv > 0 /\ ecc_count(lv - 1) >= remaining THEN FitLoopGe(lv - 1, remaining) ELSE lv

fit_ecc_ge(e, chk) ==
    IF e.used > Len(e.storage)
    THEN [fault |-> IF chk THEN "overflow" ELSE "none", ret |-> Some(MaxEccLevel)]
    ELSE LET lv == FitLoopGe(MaxEccLevel + 1, Len(e.storage) - e.used)
         IN  [fault |-> "none", ret |-> IF lv = 0 THEN None ELSE Some(lv - 1)]

\* pub fn fit_ecc(&self) -> Option<u8>, lines 463-472.
\* capacity() - used is a usize subtraction: with used beyond the capacity
\* it panics with overflow checks and wraps to a huge remainder without.
fit_ecc(e, chk) ==
    IF e.used > Len(e.storage)
    THEN [fault |-> IF chk THEN "overflow" ELSE "none", ret |-> Some(MaxEccLevel)]
    ELSE LET lv == FitLoop(MaxEccLevel + 1, Len(e.storage) - e.used)
         IN  [fault |-> "none", ret |-> IF lv = 0 THEN None ELSE Some(lv - 1)]

----------------------------------------------------------------------------
(* Specification SpecEnc: one PDF417Encoder of a full symbol from new()    *)
(* through a bounded number of append_* calls to seal / fit_seal           *)

\* greatest number of append_* calls on one encoder
MaxAppends == 2
\* greatest buffer length
MaxCap == 8
\* greatest ECC level handed to seal that is within 0..8
MaxSealLevel == 2
\* content of the caller's buffer before the encoder writes to it (no codeword)
Blank == 929

EncCaps == {1, 4, 5, 6, MaxCap}

\* "Test"
StrTest == <<84, 101, 115, 116>>
\* "ab"
StrAb == <<97, 98>>
\* decimal digits, most significant first, of the numbers handed to append_num
\* (the empty string is 0): 42, and 2^64 - 10^19
Num42 == <<4, 2>>
NumWrapZero == <<8, 4, 4, 6, 7, 4, 4, 0, 7, 3, 7, 0, 9, 5, 5, 1, 6, 1, 6>>

EncAsciiInputs == {StrTest, <<>>}
EncNumInputs == {Num42, NumWrapZero}
EncBytesInputs == {<<>>, StrAb}
EncUtf8Inputs == {<<195, 169>>}
EncCodewordInputs == {928}
EncRawInputs == {<<>>, <<1, 2>>}
EncSealInputs == 0..MaxSealLevel \cup {MaxEccLevel + 1}

Me == Enc(storage, used, micro, last_mode)

U64(ds) == BigFromDecimal(ds, U64Limbs).v

\* the encoder e, as new() or earlier calls left it, before the calls the
\* specification makes on it
InitEncoder(e) ==
    /\ storage = e.storage
    /\ used = e.used
    /\ micro = e.micro
    /\ last_mode = e.last_mode
    /\ enc_pc = "open"
    /\ op = [NoOp EXCEPT !.name = "new", !.used0 = e.used, !.storage0 = e.storage,
                        !.mode0 = e.last_mode]
    /\ nops = 0

\* PDF417Encoder::new(&mut [Blank; cap], false)
Fresh(cap) == new(Fill(cap, Blank), FALSE)

InitEnc ==
    /\ checks \in BOOLEAN
    /\ \E cap \in EncCaps : InitEncoder(Fresh(cap))
    /\ EccIdle
    /\ SymIdle

\* the effect of a call with result r on the encoder; a panic ends it
Call(name, arg, r, next) ==
    /\ op' = [name |-> name, arg |-> arg, used0 |-> used, storage0 |-> storage,
              mode0 |-> last_mode, fault |-> r.fault, ret |-> None]
    /\ IF r.fault = "none"
       THEN /\ storage' = r.storage
            /\ used' = r.used
            /\ last_mode' = r.last_mode
            /\ enc_pc' = next
       ELSE /\ UNCHANGED <<storage, used, last_mode>>
            /\ enc_pc' = "panic"
    /\ UNCHANGED <<checks, micro, eccVars, symVars>>

AppendAscii(s) ==
    /\ enc_pc = "open"
    /\ nops < MaxAppends
    /\ Call("append_ascii", s, append_ascii(Me, s, checks), "open")
    /\ nops' = nops + 1

AppendNum(ds) ==
    /\ enc_pc = "open"
    /\ nops < MaxAppends
    /\ Call("append_num", ds, append_num(Me, U64(ds), checks), "open")
    /\ nops' = nops + 1

AppendBytes(b) ==
    /\ enc_pc = "open"
    /\ nops < MaxAppends
    /\ Call("append_bytes", b, append_bytes(Me, b), "open")
    /\ nops' = nops + 1

AppendUtf8(b) ==
    /\ enc_pc = "open"
    /\ nops < MaxAppends
    /\ Call("append_utf8", b, append_utf8(Me, b), "open")
    /\ nops' = nops + 1

AppendCodeword(cw) ==
    /\ enc_pc = "open"
    /\ nops < MaxAppends
    /\ Call("append_codeword", <<cw>>, append_codeword(Me, cw), "open")
    /\ nops' = nops + 1

AppendRaw(cws) ==
    /\ enc_pc = "open"
    /\ nops < MaxAppends
    /\ Call("append_raw", cws, append_raw(Me, cws), "open")
    /\ nops' = nops + 1

\* seal consumes the encoder and hands the buffer back
Seal(lv) ==
    /\ enc_pc = "open"
    /\ Call("seal", <<lv>>, seal(Me, lv, checks), "sealed")
    /\ UNCHANGED nops

\* fit_ecc borrows the encoder (&self) and returns an Option
FitEcc ==
    /\ enc_pc = "open"
    /\ op.name # "fit_ecc"
    /\ LET r == fit_ecc(Me, checks) IN
       /\ op' = [name |-> "fit_ecc", arg |-> <<>>, used0 |-> used, storage0 |-> storage,
                 mode0 |-> last_mode, fault |-> r.fault, ret |-> r.ret]
       /\ enc_pc' = IF r.fault = "none" THEN "open" ELSE "panic"
    /\ UNCHANGED <<storage, used, last_mode, nops, checks, micro, eccVars, symVars>>

\* pub fn fit_seal(self): let v = self.fit_ecc()?; Some((v, self.seal(v)))
FitSeal ==
    /\ enc_pc = "open"
    /\ LET f == fit_ecc(Me, checks)
           r == IF f.fault # "none" THEN Panicked(Me, f.fault)
                ELSE IF f.ret = None THEN Returned(storage, used, last_mode)
                ELSE seal(Me, f.ret[1], checks)
       IN  /\ op' = [name |-> "fit_seal", arg |-> <<>>, used0 |-> used,
                     storage0 |-> storage, mode0 |-> last_mode, fault |-> r.fault,
                     ret |-> IF r.fault = "none" THEN f.ret ELSE None]
           /\ IF r.fault = "none"
              THEN /\ storage' = r.storage
                   /\ enc_pc' = IF f.ret = None THEN "nofit" ELSE "sealed"
              ELSE /\ UNCHANGED storage
                   /\ enc_pc' = "panic"
    /\ UNCHANGED <<used, last_mode, nops, checks, micro, eccVars, symVars>>

NextEnc ==
    \/ \E s \in EncAsciiInputs : AppendAscii(s)
    \/ \E ds \in EncNumInputs : AppendNum(ds)
    \/ \E b \in EncBytesInputs : AppendBytes(b)
    \/ \E b \in EncUtf8Inputs : AppendUtf8(b)
    \/ \E cw \in EncCodewordInputs : AppendCodeword(cw)
    \/ \E cws \in EncRawInputs : AppendRaw(cws)
    \/ \E lv \in EncSealInputs : Seal(lv)
    \/ FitEcc
    \/ FitSeal

SpecEnc == InitEnc /\ [][NextEnc]_vars

----------------------------------------------------------------------------
(* Claims on SpecEnc                                                       *)

AppendNames ==
    {"append_ascii", "append_num", "append_bytes", "append_utf8", "append_codeword",
     "append_raw"}

\* the level handed to the last seal call, and the data region it leaves
SealLevel == op.arg[1]
SealTotal == Len(op.storage0) - ecc_count(SealLevel)

\* C3: seal(level) of a full-symbol encoder with used <= total =
\* capacity - ecc_count(level) returns the buffer with slot 0 = total, slots
\* [1, used) unchanged, slots [used, total) = 900 and the last
\* ecc_count(level) slots = the ECC over slots [0, total).
C3_SealLayout ==
    (/\ op.name = "seal"
     /\ SealLevel <= MaxEccLevel
     /\ op.used0 <= SealTotal)
    => /\ enc_pc = "sealed"
       /\ Len(storage) = Len(op.storage0)
       /\ storage[1] = SealTotal
       /\ \A j \in 2..op.used0 : storage[j] = op.storage0[j]
       /\ \A j \in (op.used0 + 1)..SealTotal : storage[j] = CW_PADDING
       /\ SubSeq(storage, SealTotal + 1, Len(storage))
            = RefEcc(SubSeq(storage, 1, SealTotal), SealLevel)

C3_Witness ==
    /\ op.name = "seal"
    /\ enc_pc = "sealed"
    /\ SealLevel = 0
    /\ op.used0 = 4
    /\ SealTotal = 6
    /\ storage[2] = 19 * 30 + 27
    /\ storage[5] = CW_PADDING

\* C4: seal(level) with used > capacity - ecc_count(level) aborts, and never
\* returns a buffer in which data codewords of [1, used) were overwritten.
\* (Stated for an encoder that holds data, used > 1.)
C4_SealAbortsOnCapacityViolation ==
    (/\ op.name = "seal"
     /\ SealLevel <= MaxEccLevel
     /\ op.used0 > 1
     /\ op.used0 > SealTotal)
    => /\ enc_pc = "panic"
       /\ ~(enc_pc = "sealed"
            /\ \E j \in 2..op.used0 : j <= Len(storage) /\ storage[j] # op.storage0[j])

\* "Test" as append_ascii leaves it in slots 1..3 of a fresh buffer of cap slots
TestEncoded(cap) ==
    /\ Len(op.storage0) = cap
    /\ op.used0 = 4
    /\ SubSeq(op.storage0, 2, 4) = <<19 * 30 + 27, 4 * 30 + 18, 19 * 30 + 29>>

\* C5, as stated: sealing the encoded "Test" at level 0 over a 5-slot buffer
\* appends the ECC codewords [161, 542] and sets the length indicator to 16.
C5_SealTestFiveSlots ==
    (op.name = "seal" /\ SealLevel = 0 /\ TestEncoded(5))
    => /\ enc_pc = "sealed"
       /\ storage[1] = 16
       /\ SubSeq(storage, 4, 5) = <<161, 542>>

\* C5, amended: sealing the encoded "Test" at level 0 over a 6-slot buffer
\* (length indicator, 3 data codewords, 2 ECC codewords) appends the ECC
\* codewords [600, 139] and sets the length indicator to 4.
C5_SealTestSixSlots ==
    (op.name = "seal" /\ SealLevel = 0 /\ TestEncoded(6))
    => /\ enc_pc = "sealed"
       /\ storage = <<4, 19 * 30 + 27, 4 * 30 + 18, 19 * 30 + 29, 600, 139>>

C5_Witness ==
    /\ op.name = "seal"
    /\ SealLevel = 0
    /\ TestEncoded(6)
    /\ enc_pc = "sealed"
    /\ storage[1] = 4

C8_CursorBounded ==
    /\ (op.name \in AppendNames /\ enc_pc = "open") => used >= op.used0
    /\ (op.name = "seal" /\ enc_pc = "sealed" /\ nops >= 1) => used <= SealTotal

----------------------------------------------------------------------------
(* Specification SpecFit: fit_ecc on full-symbol encoders of every buffer  *)
(* length up to MaxFitCap that hold up to MaxFitData raw codewords         *)

\* greatest buffer length (level 8 needs 512 free slots)
MaxFitCap == 520
\* greatest number of data codewords in the buffer
MaxFitData == 2

InitFit ==
    /\ checks \in BOOLEAN
    /\ \E cap \in 1..MaxFitCap : \E k \in 0..MaxFitData :
          /\ k + 1 <= cap
          /\ LET r == append_raw(Fresh(cap), Fill(k, 1))
             IN  InitEncoder(Enc(r.storage, r.used, FALSE, r.last_mode))
    /\ EccIdle
    /\ SymIdle

NextFit == FitEcc

SpecFit == InitFit /\ [][NextFit]_vars

FitRemaining == Len(op.storage0) - op.used0

\* C7: for a full-symbol encoder with used <= capacity, fit_ecc returns
\* Some(L) with L the greatest level of 0..8 such that 2^(L+1) <= capacity -
\* used, and None exactly when capacity - used < 2; the ECC codewords of the
\* level returned never overlap the data, and the encoder is not modified.
C7_FitEccGreatestLevel ==
    (op.name = "fit_ecc" /\ op.used0 <= Len(op.storage0))
    => /\ enc_pc = "open"
       /\ (op.ret = None) <=> (FitRemaining < 2)
       /\ op.ret # None =>
            /\ op.ret[1] \in 0..8
            /\ 2 ^ (op.ret[1] + 1) <= FitRemaining
            /\ \A M \in 0..8 : 2 ^ (M + 1) <= FitRemaining => M <= op.ret[1]
            /\ op.used0 <= Len(op.storage0) - 2 ^ (op.ret[1] + 1)
       /\ storage = op.storage0
       /\ used = op.used0
       /\ last_mode = op.mode0

C7_Witness ==
    /\ op.name = "fit_ecc"
    /\ op.ret = Some(5)
    /\ FitRemaining = 127
    /\ op.used0 = 3

----------------------------------------------------------------------------
(* Specification SpecNum: append_num calls on a fresh full-symbol encoder  *)

\* greatest buffer length: the length indicator and two segments of 8
MaxNumCap == 17
NumCaps == {3, 8, MaxNumCap}

\* decimal digits of the u64 handed to append_num; <<>> is 0
Num12345678987654321 == <<1, 2, 3, 4, 5, 6, 7, 8, 9, 8, 7, 6, 5, 4, 3, 2, 1>>
\* 2^64 - 10^19 - 1: the greatest 19-digit n with n + 10^19 < 2^64
NumLastFit == <<8, 4, 4, 6, 7, 4, 4, 0, 7, 3, 7, 0, 9, 5, 5, 1, 6, 1, 5>>
\* 10^19, the least 20-digit u64
NumTenTo19 == <<1, 0, 0, 0, 0, 0, 0, 0, 0, 0, 0, 0, 0, 0, 0, 0, 0, 0, 0, 0>>
\* u64::MAX
NumU64Max == <<1, 8, 4, 4, 6, 7, 4, 4, 0, 7, 3, 7, 0, 9, 5, 5, 1, 6, 1, 5>>

NumInputs ==
    {<<>>, <<7>>, Num42, <<9, 9, 9>>, <<1, 0, 0, 0>>, Num12345678987654321,
     NumLastFit, NumWrapZero, NumTenTo19, NumU64Max}

InitNum ==
    /\ checks \in BOOLEAN
    /\ \E cap \in NumCaps : InitEncoder(Fresh(cap))
    /\ EccIdle
    /\ SymIdle

NextNum == \E ds \in NumInputs : AppendNum(ds)

SpecNum == InitNum /\ [][NextNum]_vars

\* the base-900 digits, most significant first, of n + 10^d computed without
\* wrap-around: the decimal string "1" followed by the d digits of n
NumReference(ds) == BigBase900(BigFromDecimal(<<1>> \o ds, U160Limbs).v)

NumLatch == IF op.mode0 # 4 THEN 1 ELSE 0
NumCount == Len(op.arg) \div 3 + 1

AppendNumAsReference ==
    /\ enc_pc = "open"
    /\ NumLatch = 1 => storage[op.used0 + 1] = 902
    /\ Len(NumReference(op.arg)) = NumCount
    /\ SubSeq(storage, op.used0 + NumLatch + 1, op.used0 + NumLatch + NumCount)
         = NumReference(op.arg)
    /\ used = op.used0 + NumLatch + NumCount

\* C9: for every u64 n of d decimal digits (d = 0 for n = 0), append_num
\* writes after the optional 902 exactly floor(d/3)+1 codewords, the
\* base-900 digits of n + 10^d computed without wrap-around, and advances
\* the cursor by that count; append_num(12345678987654321) on a fresh encoder
\* yields [902, 190, 232, 499, 20, 504, 721].  (Stated for buffers with room
\* for the codewords.)
C9_AppendNumBase900 ==
    /\ (/\ op.name = "append_num"
        /\ op.used0 + NumLatch + NumCount <= Len(op.storage0))
       => AppendNumAsReference
    /\ (/\ op.name = "append_num"
        /\ op.arg = Num12345678987654321
        /\ nops = 1
        /\ Len(storage) >= 8)
       => SubSeq(storage, 2, 8) = <<902, 190, 232, 499, 20, 504, 721>>

\* what holds of append_num: the same, for the n with n + 10^d < 2^64 (up to
\* 2^64 - 10^19 - 1)
AppendNumBelowWrap ==
    (/\ op.name = "append_num"
     /\ op.arg \notin {NumWrapZero, NumTenTo19, NumU64Max}
     /\ op.used0 + NumLatch + NumCount <= Len(op.storage0))
    => AppendNumAsReference

----------------------------------------------------------------------------
(* Specification SpecBytes: append_bytes calls on a fresh full-symbol      *)
(* encoder                                                                 *)

\* greatest payload length of the enumerated payloads (two groups and one)
MaxBytesLen == 13
\* greatest buffer length: the length indicator and two greatest segments
MaxBytesCap == 25
BytesCaps == {4, 13, MaxBytesCap}

\* b"alcool", b"encode bin"
BytesAlcool == <<97, 108, 99, 111, 111, 108>>
BytesEncodeBin == <<101, 110, 99, 111, 100, 101, 32, 98, 105, 110>>

BytesInputs ==
    {Fill(n, b) : n \in 0..MaxBytesLen, b \in {0, 255}}
      \cup {BytesAlcool, BytesEncodeBin, <<7>>, <<1, 2, 3, 4, 5, 6, 7, 8, 9, 10, 11, 12>>}

InitBytes ==
    /\ checks \in BOOLEAN
    /\ \E cap \in BytesCaps : InitEncoder(Fresh(cap))
    /\ EccIdle
    /\ SymIdle

NextBytes == \E b \in BytesInputs : AppendBytes(b)

SpecBytes == InitBytes /\ [][NextBytes]_vars

\* sum s[j] * base^(Len(s) - j), in u64 limbs
RECURSIVE BigHornerFrom(_, _, _, _)
BigHornerFrom(acc, s, base, k) ==
    IF k > Len(s) THEN acc
    ELSE IF BigIsZero(acc) /\ s[k] = 0 THEN BigHornerFrom(acc, s, base, k + 1)
    ELSE BigHornerFrom(BigMulAdd(acc, base, s[k]).v, s, base, k + 1)

BigHorner(s, base) == BigHornerFrom(BigZero(U64Limbs), s, base, 1)

BytesLen == Len(op.arg)
BytesGroups == BytesLen \div 6
BytesAdvance == 1 + 5 * BytesGroups + (BytesLen % 6)

\* C10: for a payload of length L > 1, append_bytes writes the latch 924 if
\* L mod 6 = 0 and 901 otherwise, then for each complete group of 6 bytes 5
\* codewords cw_0..cw_4 with sum cw_j * 900^(4-j) = the group's 48-bit
\* big-endian value, then each of the remaining L mod 6 bytes as one
\* codeword, and advances the cursor by 1 + 5*floor(L/6) + (L mod 6).
\* (Stated for buffers with room for the codewords.)
C10_AppendBytesLayout ==
    (/\ op.name = "append_bytes"
     /\ BytesLen > 1
     /\ op.used0 + BytesAdvance <= Len(op.storage0))
    => /\ enc_pc = "open"
       /\ storage[op.used0 + 1] = IF BytesLen % 6 = 0 THEN 924 ELSE 901
       /\ \A g \in 0..(BytesGroups - 1) :
            LET cws == SubSeq(storage, op.used0 + 2 + 5 * g, op.used0 + 6 + 5 * g)
            IN  /\ \A j \in 1..5 : cws[j] \in 0..899
                /\ BigHorner(cws, 900) = BigHorner(SubSeq(op.arg, 6 * g + 1, 6 * g + 6), 256)
       /\ \A r \in 1..(BytesLen % 6) :
            storage[op.used0 + 1 + 5 * BytesGroups + r] = op.arg[6 * BytesGroups + r]
       /\ used = op.used0 + BytesAdvance

C10_Witness ==
    /\ op.name = "append_bytes"
    /\ op.arg = BytesAlcool
    /\ nops = 2
    /\ enc_pc = "open"
    /\ SubSeq(storage, op.used0 + 1, used) = <<924, 163, 238, 432, 766, 244>>

OneByteRoom ==
    /\ op.name = "append_bytes"
    /\ BytesLen = 1
    /\ op.used0 + 2 <= Len(op.storage0)

\* C11, as stated: for any encoder state, append_bytes with a payload of one
\* byte b writes the shift 913 followed by b and advances the cursor by 2.
C11_OneByteAlwaysShift ==
    OneByteRoom
    => /\ enc_pc = "open"
       /\ storage[op.used0 + 1] = 913
       /\ storage[op.used0 + 2] = op.arg[1]
       /\ used = op.used0 + 2

\* C11, amended: append_bytes with a payload of one byte b writes the shift
\* 913 when the mode is a text sub-mode (below 4) and leaves the mode as it
\* is; in Numeric or Byte mode it writes the latch 901 and switches to Byte;
\* in both cases b follows and the cursor advances by 2.
C11_OneByteShiftOrLatch ==
    OneByteRoom
    => /\ enc_pc = "open"
       /\ storage[op.used0 + 1] = IF op.mode0 < 4 THEN 913 ELSE 901
       /\ last_mode = IF op.mode0 < 4 THEN op.mode0 ELSE 5
       /\ storage[op.used0 + 2] = op.arg[1]
       /\ used = op.used0 + 2

C11_Witness ==
    /\ OneByteRoom
    /\ op.mode0 = 5
    /\ enc_pc = "open"
    /\ storage[op.used0 + 1] = 901
    /\ storage[op.used0 + 2] = 7


----------------------------------------------------------------------------
(* Specification SpecKinds: one encoder, of a full symbol or of a          *)
(* MicroPDF417, from new() through append_* calls to seal                  *)

\* greatest buffer length (variant 0 with 4 data codewords has 11)
MaxKindsCap == 12
KindsCaps == {1, 11, MaxKindsCap}
\* level / variant handed to seal; 35 is neither
KindsSealInputs == {0, 3, 35}

InitKinds ==
    /\ checks \in BOOLEAN
    /\ \E cap \in KindsCaps : \E mi \in BOOLEAN : InitEncoder(new(Fill(cap, Blank), mi))
    /\ EccIdle
    /\ SymIdle

NextKinds ==
    \/ \E s \in EncAsciiInputs : AppendAscii(s)
    \/ \E ds \in EncNumInputs : AppendNum(ds)
    \/ \E b \in EncBytesInputs : AppendBytes(b)
    \/ \E cw \in EncCodewordInputs : AppendCodeword(cw)
    \/ \E cws \in EncRawInputs : AppendRaw(cws)
    \/ \E v \in KindsSealInputs : Seal(v)

SpecKinds == InitKinds /\ [][NextKinds]_vars

\* the first append call has returned and has written codewords
FirstWrite == nops = 1 /\ op.name \in AppendNames /\ enc_pc = "open" /\ used > op.used0

MicroSealFrame == \A j \in 1..op.used0 : j <= Len(storage) => storage[j] = op.storage0[j]

\* C12: a full-symbol encoder reserves slot 0 for the length indicator (the
\* cursor starts at 1, the first data codeword goes to slot 1); a Micro
\* encoder has no length indicator: its cursor starts at 0, the first data
\* codeword goes to slot 0, and seal(variant) leaves slot 0 and every other
\* data codeword of [0, used) unchanged.
C12_LengthSlotFullOnly ==
    /\ (op.name = "new" /\ ~micro) => used = 1
    /\ (FirstWrite /\ ~micro) => storage[1] = op.storage0[1] /\ storage[2] # Blank
    /\ (op.name = "new" /\ micro) => used = 0
    /\ (FirstWrite /\ micro) => storage[1] # Blank
    /\ (op.name = "seal" /\ micro /\ enc_pc = "sealed") => MicroSealFrame

\* what holds of a Micro seal: the same when the data leaves room for the
\* ECC codewords of the variant
LengthSlotWhenDataFits ==
    /\ (op.name = "new" /\ ~micro) => used = 1
    /\ (FirstWrite /\ ~micro) => storage[1] = op.storage0[1] /\ storage[2] # Blank
    /\ (op.name = "new" /\ micro) => used = 0
    /\ (FirstWrite /\ micro) => storage[1] # Blank
    /\ (/\ op.name = "seal" /\ micro /\ enc_pc = "sealed"
        /\ op.used0 <= Len(op.storage0) - MicroEccCount(SealLevel))
       => MicroSealFrame

----------------------------------------------------------------------------
(* The symbol and its renderers: lib.rs (PDF417, RenderTarget for [bool]), *)
(* builder.rs (PDF417<R>, PDF417Render<R>) and generators/pdf417.rs        *)

\* 0b11111111010101000 and 0b111111101000101001
START == 130728
END == 260649
START_PATTERN_LEN == 17
END_PATTERN_LEN == 18

MIN_ROWS == 3
MAX_ROWS == 90
MIN_COLS == 1
MAX_COLS == 30

\* HL_TO_LL[idx], idx = table * 929 + codeword: the 3 x 929 low-level
\* patterns of 16 bits are in tables.rs; a fixed stand-in with mixed bits
HL_TO_LL(idx) == (idx * 40503 + 21845) % 65536

\* the modules of the `count` low bits of value, most significant first
Bits(value, n) == [k \in 1..n |-> (value \div (2 ^ (n - k))) % 2 = 1]

\* each module of s repeated w times
Stretch(s, w) == [k \in 1..(Len(s) * w) |-> s[(k - 1) \div w + 1]]

\* s followed by itself, h times in all
RECURSIVE Repeat(_, _)
Repeat(s, h) == IF h = 0 THEN <<>> ELSE s \o Repeat(s, h - 1)

RECURSIVE Flatten(_)
Flatten(ss) == IF Len(ss) = 0 THEN <<>> ELSE Head(ss) \o Flatten(Tail(ss))

\* lib.rs cw!(table, val): LEADING_ONE + HL_TO_LL[table * 929 + val], 17 bits
Cw(table, val) == 65536 + HL_TO_LL(table * 929 + val)

\* the symbol as its constructors leave it
Symbol(api, cws, rows, cols, lv, scale, truncated) ==
    [api |-> api, codewords |-> cws, rows |-> rows, cols |-> cols, level |-> lv,
     scale |-> scale, truncated |-> truncated, inverted |-> FALSE]

Built(s) == [ok |-> TRUE, sym |-> s]
Rejected == [ok |-> FALSE, sym |-> NoSym]

\* lib.rs: pub const fn new(codewords, rows: u32, cols: u32, level: u8)
PDF417_new(cws, rows, cols, lv) ==
    IF ~(lv < 9) THEN Rejected
    ELSE IF ~(Len(cws) <= rows * cols) THEN Rejected
    ELSE Built(Symbol("lib", cws, rows, cols, lv, <<1, 1>>, FALSE))

\* lib.rs: pub const fn scaled(codewords, rows, cols, level, scale: (u32, u32))
PDF417_scaled(cws, rows, cols, lv, scale) ==
    IF ~(lv < 9) THEN Rejected
    ELSE IF ~(Len(cws) <= rows * cols) THEN Rejected
    ELSE IF ~(scale[1] > 0 /\ scale[2] > 0) THEN Rejected
    ELSE Built(Symbol("lib", cws, rows, cols, lv, scale, FALSE))

\* lib.rs: pub const fn truncated(self, truncated: bool)
PDF417_truncated(s, b) == [s EXCEPT !.truncated = b]

\* lib.rs, impl RenderTarget for [bool]: the target and BoolSliceRenderConfig
InitState(tg, s) ==
    [fault |-> "none", out |-> tg, i |-> 0, row_start |-> 0, scale |-> s.scale]

\* the modules m written from state.i on; the slice index panics beyond the target
WriteModules(st, m) ==
    IF st.fault # "none" THEN st
    ELSE IF st.i + Len(m) > Len(st.out) THEN [st EXCEPT !.fault = "bounds"]
    ELSE [st EXCEPT !.out = [j \in 1..Len(st.out) |->
                                IF j > st.i /\ j <= st.i + Len(m) THEN m[j - st.i]
                                ELSE st.out[j]],
                    !.i = st.i + Len(m)]

\* fn append_bits: for each bit, self[i..i + w].fill(bit); i += w
append_bits(st, value, n) == WriteModules(st, Stretch(Bits(value, n), st.scale[1]))

\* fn row_start
row_start(st) == IF st.fault # "none" THEN st ELSE [st EXCEPT !.row_start = st.i]

\* fn row_end: the row copied scale.1 - 1 times behind itself (copy_within
\* panics beyond the target)
row_end(st) ==
    IF st.fault # "none" \/ st.scale[2] <= 1 THEN st
    ELSE WriteModules(st, Repeat(SubSeq(st.out, st.row_start + 1, st.i), st.scale[2] - 1))

\* the row indicator of the left (side = 0) and right (side = 1) of a row
LibIndicator(s, table, side) ==
    LET rows_val == (s.rows - 1) \div 3
        cols_val == s.cols - 1
        level_val == s.level * 3 + ((s.rows - 1) % 3)
    IN  IF side = 0
        THEN (CASE table = 0 -> rows_val [] table = 1 -> level_val [] OTHER -> cols_val)
        ELSE (CASE table = 0 -> cols_val [] table = 1 -> rows_val [] OTHER -> level_val)

\* PDF417::render, lines 504-547: the codewords from k on; r = [st, table, col, row]
RECURSIVE RenderLoop(_, _, _)
RenderLoop(s, k, r) ==
    IF r.st.fault # "none" \/ k > Len(s.codewords) THEN r.st
    ELSE LET st1 == IF r.col = 0
                    THEN append_bits(
                           append_bits(row_start(r.st), START, START_PATTERN_LEN),
                           Cw(r.table, (r.row \div 3) * 30 + LibIndicator(s, r.table, 0)), 17)
                    ELSE r.st
             st2 == append_bits(st1, Cw(r.table, s.codewords[k]), 17)
             full == r.col + 1 = s.cols
             st3 == IF ~full THEN st2
                    ELSE IF s.truncated THEN row_end(append_bits(st2, 1, 1))
                    ELSE row_end(
                           append_bits(
                             append_bits(st2,
                               Cw(r.table, (r.row \div 3) * 30 + LibIndicator(s, r.table, 1)), 17),
                             END, END_PATTERN_LEN))
         IN  RenderLoop(s, k + 1,
                        IF full
                        THEN [st |-> st3, table |-> IF r.table = 2 THEN 0 ELSE r.table + 1,
                              col |-> 0, row |-> r.row + 1]
                        ELSE [st |-> st3, table |-> r.table, col |-> r.col + 1, row |-> r.row])

\* lib.rs: pub fn render(&self, storage: &mut [bool]).  self.rows - 1 and
\* self.cols - 1 are u32 subtractions: with 0 rows or columns they panic with
\* overflow checks; without, they wrap, and the symbol has no codeword to use them
PDF417_render(s, tg, chk) ==
    IF (s.rows = 0 \/ s.cols = 0) /\ chk THEN [InitState(tg, s) EXCEPT !.fault = "overflow"]
    ELSE IF s.rows = 0 \/ s.cols = 0 THEN InitState(tg, s)
    ELSE RenderLoop(s, 1, [st |-> InitState(tg, s), table |-> 0, col |-> 0, row |-> 0])

\* builder.rs: PDF417<R>::new(storage, rows: u8, cols: u8, level: u8) with
\* R = PDF417Row<TRUNCATED>, followed by render(): scale = R::DEFAULT_SCALE
Builder_new(cws, rows, cols, lv, truncated) ==
    IF ~(rows >= MIN_ROWS /\ rows <= MAX_ROWS) THEN Rejected
    ELSE IF ~(cols >= MIN_COLS /\ cols <= MAX_COLS) THEN Rejected
    ELSE IF ~(Len(cws) = rows * cols) THEN Rejected
    ELSE IF ~(lv < 9) THEN Rejected
    ELSE Built(Symbol("builder", cws, rows, cols, lv, <<1, 1>>, truncated))

\* builder.rs: pub const fn set_scale(mut self, scale: (u16, u16))
set_scale(s, scale) == [s EXCEPT !.scale = scale]

\* builder.rs: pub const fn set_inverted(mut self, inverted: bool)
set_inverted(s, b) == [s EXCEPT !.inverted = b]

\* generators/pdf417.rs: PDF417Row::prepare
Prepare(rows, cols, lv) ==
    [rows_val |-> (rows - 1) \div 3, cols_val |-> cols - 1,
     level_val |-> lv * 3 + ((rows - 1) % 3)]

\* the markers with the left and the right permutation exchanged
Markers_swapped(row, infos) ==
    LET table == row % 3
        row_id == (row \div 3) * 30
    IN  CASE table = 0 -> <<infos.cols_val + row_id, infos.rows_val + row_id>>
          [] table = 1 -> <<infos.rows_val + row_id, infos.level_val + row_id>>
          [] OTHER -> <<infos.level_val + row_id, infos.cols_val + row_id>>

\* generators/pdf417.rs: PDF417Row::new, (left, right) markers of row `row`
Markers(row, infos) ==
    LET table == row % 3
        row_id == (row \div 3) * 30
    IN  CASE table = 0 -> <<infos.rows_val + row_id, infos.cols_val + row_id>>
          [] table = 1 -> <<infos.level_val + row_id, infos.rows_val + row_id>>
          [] OTHER -> <<infos.cols_val + row_id, infos.level_val + row_id>>

\* the bitfields one PDF417Row yields (Iterator::next until None), each
\* flattened to its modules: Start, Left, Data.., Right, End, or, truncated,
\* Start, Left, Data.., End = Bitfield::new(1, 1)
RowModules(cws, row, infos, truncated) ==
    LET table == row % 3
        m == Markers(row, infos)
        data == Flatten([k \in 1..Len(cws) |-> Bits(Cw(table, cws[k]), 17)])
    IN  Bits(START, START_PATTERN_LEN) \o Bits(Cw(table, m[1]), 17) \o data
          \o (IF truncated THEN Bits(1, 1)
              ELSE Bits(Cw(table, m[2]), 17) \o Bits(END, END_PATTERN_LEN))

\* storage.chunks(cols): the rows of the symbol, the last one shorter when
\* cols does not divide the length
Chunks(cws, cols) ==
    [r \in 1..((Len(cws) + cols - 1) \div cols) |->
        SubSeq(cws, (r - 1) * cols + 1, IF r * cols < Len(cws) THEN r * cols ELSE Len(cws))]

\* builder.rs: PDF417Render::bits(): every row sy times, every module sx
\* times, inverted when set
bits(s) ==
    LET infos == Prepare(s.rows, s.cols, s.level)
        rows == Chunks(s.codewords, s.cols)
        line(r) == Stretch([k \in 1..Len(RowModules(rows[r], r - 1, infos, s.truncated)) |->
                               RowModules(rows[r], r - 1, infos, s.truncated)[k] # s.inverted],
                           s.scale[1])
    IN  Flatten([r \in 1..Len(rows) |-> Repeat(line(r), s.scale[2])])

\* builder.rs: fill_bits(target): target[i] = bit for every module; the index
\* panics beyond the target
fill_bits(s, tg) ==
    LET m == bits(s)
    IN  IF Len(m) > Len(tg) THEN [fault |-> "bounds", out |-> tg, i |-> Len(tg)]
        ELSE [fault |-> "none",
              out |-> [j \in 1..Len(tg) |-> IF j <= Len(m) THEN m[j] ELSE tg[j]],
              i |-> Len(m)]

\* lib.rs: pdf417_width!(cols, scale_x, 0, truncated), pdf417_height!(rows, scale_y)
pdf417_width(cols, scale_x, truncated) ==
    IF truncated THEN (17 + 17 + cols * 17) * scale_x
    ELSE (17 + 17 + cols * 17 + 17 + 18) * scale_x

pdf417_height(rows, scale_y) == rows * scale_y

----------------------------------------------------------------------------
(* Symbols: construction through either API, configuration and rendering   *)
(* into a [bool] target                                                    *)

\* greatest number of rows and of columns of an enumerated symbol
MaxSymRows == 4
MaxSymCols == 2
\* greatest scale factor on either axis
MaxScale == 2

\* the j-th codeword of an enumerated symbol (0-based), below 929
SymCodeword(j) == (j * 389 + 7) % 929
SymCodewords(n) == [j \in 1..n |-> SymCodeword(j - 1)]

SymRows == {1, 3, MaxSymRows}
SymCols == {0} \cup 1..MaxSymCols
SymLevels == {0, 8, 9}
\* codeword counts around the capacity rows * cols
SymLens(rows, cols) == {n \in {rows * cols - 1, rows * cols, rows * cols + 1} : n >= 0}
SymScales == (0..MaxScale) \X (0..MaxScale)

\* target lengths: the published pdf417_width! * pdf417_height!, and one
\* module more per module row and scale column
TargetLens(s) ==
    LET n == pdf417_width(s.cols, s.scale[1], s.truncated) * pdf417_height(s.rows, s.scale[2])
    IN  {n, n + s.rows * s.scale[1] * s.scale[2]}

Constructed(r) ==
    /\ sym' = r.sym
    /\ sym_pc' = IF r.ok THEN "built" ELSE "rejected"
    /\ target' = target
    /\ UNCHANGED <<checks, eccVars, encVars, iter, yielded>>

LibNew(n, rows, cols, lv) ==
    /\ sym_pc = "idle"
    /\ Constructed(PDF417_new(SymCodewords(n), rows, cols, lv))

LibScaled(n, rows, cols, lv, scale) ==
    /\ sym_pc = "idle"
    /\ Constructed(PDF417_scaled(SymCodewords(n), rows, cols, lv, scale))

BuilderNew(n, rows, cols, lv, truncated) ==
    /\ sym_pc = "idle"
    /\ Constructed(Builder_new(SymCodewords(n), rows, cols, lv, truncated))

Configured(s) ==
    /\ sym' = s
    /\ s # sym
    /\ UNCHANGED <<sym_pc, target, checks, eccVars, encVars, iter, yielded>>

LibTruncated(b) ==
    /\ sym_pc = "built" /\ sym.api = "lib"
    /\ Configured(PDF417_truncated(sym, b))

SetScale(scale) ==
    /\ sym_pc = "built" /\ sym.api = "builder"
    /\ Configured(set_scale(sym, scale))

SetInverted(b) ==
    /\ sym_pc = "built" /\ sym.api = "builder"
    /\ Configured(set_inverted(sym, b))

Rendered(st) ==
    /\ target' = [out |-> st.out, i |-> st.i, fault |-> st.fault]
    /\ sym_pc' = IF st.fault = "none" THEN "rendered" ELSE "panic"
    /\ UNCHANGED <<sym, checks, eccVars, encVars, iter, yielded>>

LibRender(len) ==
    /\ sym_pc = "built" /\ sym.api = "lib"
    /\ Rendered(PDF417_render(sym, [j \in 1..len |-> FALSE], checks))

FillBits(len) ==
    /\ sym_pc = "built" /\ sym.api = "builder"
    /\ Rendered(fill_bits(sym, [j \in 1..len |-> FALSE]))

InitSym ==
    /\ checks \in BOOLEAN
    /\ EccIdle
    /\ EncIdle
    /\ SymIdle

NextSym ==
    \/ \E rows \in SymRows, cols \in SymCols, lv \in SymLevels :
         \E n \in SymLens(rows, cols) : LibNew(n, rows, cols, lv)
    \/ \E rows \in SymRows, cols \in SymCols, lv \in SymLevels, scale \in SymScales :
         \E n \in SymLens(rows, cols) : LibScaled(n, rows, cols, lv, scale)
    \/ \E rows \in SymRows, cols \in SymCols, lv \in SymLevels, t \in BOOLEAN :
         \E n \in SymLens(rows, cols) : BuilderNew(n, rows, cols, lv, t)
    \/ \E b \in BOOLEAN : LibTruncated(b)
    \/ \E scale \in SymScales : SetScale(scale)
    \/ \E b \in BOOLEAN : SetInverted(b)
    \/ \E len \in TargetLens(sym) : LibRender(len)
    \/ \E len \in TargetLens(sym) : FillBits(len)

SpecSym == InitSym /\ [][NextSym]_vars

\* a constructor has returned a symbol
SymBuilt == sym_pc \in {"built", "rendered", "panic"}
\* the renderer has been started on the symbol
RenderStarted == sym_pc \in {"rendered", "panic"}

\* the symbol fills its rows: rows * cols codewords within the documented ranges
Complete(s) ==
    /\ s.rows >= MIN_ROWS /\ s.rows <= MAX_ROWS
    /\ s.cols >= MIN_COLS /\ s.cols <= MAX_COLS
    /\ s.level <= 8
    /\ Len(s.codewords) = s.rows * s.cols

\* C13: constructing a full symbol succeeds only if 3 <= rows <= 90,
\* 1 <= cols <= 30, level <= 8 and codewords.len() == rows * cols; so the
\* renderer never starts on a symbol whose last row has fewer than cols codewords
C13_ConstructionValidates ==
    /\ SymBuilt => Complete(sym)
    /\ RenderStarted => (sym.cols > 0 /\ Len(sym.codewords) % sym.cols = 0)

\* what builder.rs alone guarantees
BuilderConstructionValidates == (SymBuilt /\ sym.api = "builder") => Complete(sym)

\* C14: a zero scale factor on either axis is rejected at construction, through
\* set_scale too: no symbol has one, and rendering never starts with one
C14_ScaleNeverZero ==
    SymBuilt => (sym.scale[1] > 0 /\ sym.scale[2] > 0)

\* what lib.rs alone guarantees
LibScaleNeverZero == (SymBuilt /\ sym.api = "lib") => (sym.scale[1] > 0 /\ sym.scale[2] > 0)

\* the published size of the symbol
PublishedModules(s) ==
    pdf417_width(s.cols, s.scale[1], s.truncated) * pdf417_height(s.rows, s.scale[2])

\* C15: a complete symbol rendered into a target of exactly
\* pdf417_width * pdf417_height modules fills it completely and never overruns
\* it, truncated or not
C15_ExactTargetFilled ==
    (RenderStarted /\ Complete(sym) /\ Len(target.out) = PublishedModules(sym))
        => (target.fault = "none" /\ target.i = PublishedModules(sym))

\* the same, for symbols that are not truncated
ExactTargetFilledFullWidth ==
    (RenderStarted /\ Complete(sym) /\ ~sym.truncated
       /\ Len(target.out) = PublishedModules(sym))
        => (target.fault = "none" /\ target.i = PublishedModules(sym))

\* a truncated row is one module wider than published: the 1-module stop bar
TruncatedRowModules ==
    (RenderStarted /\ Complete(sym) /\ sym.truncated /\ target.fault = "none")
        => target.i = (17 + 17 + 17 * sym.cols + 1) * sym.scale[1] * sym.rows * sym.scale[2]

\* the modules the renderer wrote
Written == SubSeq(target.out, 1, target.i)

\* the symbol rendered at scale (1, 1) into a target that holds it
UnitRender(s) ==
    LET u == [s EXCEPT !.scale = <<1, 1>>]
        room == [j \in 1..((17 + 17 + 17 * s.cols + 17 + 18) * (s.rows + 1)) |-> FALSE]
        st == IF s.api = "lib" THEN PDF417_render(u, room, FALSE) ELSE fill_bits(u, room)
    IN  SubSeq(st.out, 1, st.i)

\* the modules of one module row, each replaced by a block sx wide and sy high
RowBlock(row, sx, sy) ==
    [k \in 1..(Len(row) * sx * sy) |-> row[((k - 1) % (Len(row) * sx)) \div sx + 1]]

\* unit cut into module rows of w modules, each replaced by its blocks
RECURSIVE Blocks(_, _, _, _)
Blocks(unit, w, sx, sy) ==
    IF Len(unit) = 0 THEN <<>>
    ELSE IF Len(unit) <= w THEN RowBlock(unit, sx, sy)
    ELSE RowBlock(SubSeq(unit, 1, w), sx, sy) \o Blocks(SubSeq(unit, w + 1, Len(unit)), w, sx, sy)

\* modules of one module row at scale 1
UnitWidth(s) == 17 + 17 + 17 * s.cols + (IF s.truncated THEN 1 ELSE 17 + 18)

\* C16: rendering at scale (sx, sy) gives the rendering at (1, 1) with every
\* module replaced by a block sx wide and sy high
C16_ScalingLaw ==
    (sym_pc = "rendered" /\ sym.rows > 0 /\ sym.cols > 0)
        => Written = Blocks(UnitRender(sym), UnitWidth(sym), sym.scale[1], sym.scale[2])

\* the same, for symbols that fill their rows
ScalingLawComplete ==
    (sym_pc = "rendered" /\ Complete(sym))
        => Written = Blocks(UnitRender(sym), UnitWidth(sym), sym.scale[1], sym.scale[2])

\* a complete symbol rendered at a scale above 1 on both axes
ScaledRendered ==
    sym_pc = "rendered" /\ Complete(sym) /\ sym.scale[1] > 1 /\ sym.scale[2] > 1

----------------------------------------------------------------------------
(* C17: generate_ecc depends on the data region and the level only        *)

\* the data region of the slice handed to generate_ecc
EccDataIn == SubSeq(ecc_in, 1, Len(ecc_in) - ecc_count(level))

\* C17: whatever the last N slots held before the call, generate_ecc leaves
\* the ECC codewords of the data region there (the result is the one over
\* zeroed and over otherwise filled slots), leaves the first len - N slots as
\* they were, and a second call on the result changes nothing
C17_EccFunctionOfData ==
    ecc_pc = "done" =>
        /\ SubSeq(codewords, 1, Len(ecc_in) - ecc_count(level)) = EccDataIn
        /\ \A g \in EccGarbage \cup {0, 928} :
             generate_ecc(EccDataIn \o Fill(ecc_count(level), g), level, checks).cw = codewords
        /\ generate_ecc(codewords, level, checks).ok
        /\ generate_ecc(codewords, level, checks).cw = codewords

\* a call has returned on a slice with data and with non-zero prior content in
\* the ECC slots, and has written ECC codewords that are not all zero
C17_Witness ==
    /\ ecc_pc = "done"
    /\ Len(EccDataIn) > 0
    /\ \A k \in (Len(EccDataIn) + 1)..Len(ecc_in) : ecc_in[k] # 0
    /\ \E k \in (Len(EccDataIn) + 1)..Len(ecc_in) : codewords[k] # 0 /\ codewords[k] # ecc_in[k]

----------------------------------------------------------------------------
(* Text compaction: chained append calls, the sub-modes of append_ascii    *)
(* and its digit runs                                                      *)

\* buffer length of the encoder
MaxTextCap == 40
\* greatest digit run handed to append_ascii (tests::test_generate_ascii_numeric_big)
MaxDigits == 51

\* "12345678987654321123456789876543211234567898765432112...": the digits of
\* tests::test_generate_ascii_numeric_big, continued in the same pattern
DigitAt(j) == LET r == (j - 1) % 17 IN 48 + (IF r < 9 THEN r + 1 ELSE 17 - r)
DigitStr(n) == [j \in 1..n |-> DigitAt(j)]

\* "12345678987654321 num"
StrNumeric == DigitStr(17) \o <<32, 110, 117, 109>>
\* "encoded 0123456789 as digits"
StrWithDigits ==
    <<101, 110, 99, 111, 100, 101, 100, 32>> \o [j \in 1..10 |-> 47 + j]
      \o <<32, 97, 115, 32, 100, 105, 103, 105, 116, 115>>

\* "a", "&", ";<>": strings that end in Lower, Mixed and Punctuation
StrLower == <<97>>
StrMixed == <<38>>
StrPunc == <<59, 60, 62>>

\* "aBc", "aB c", "aB", "aBC": an uppercase letter met in Lower mode
TextUpperInputs == {<<97, 66, 99>>, <<97, 66, 32, 99>>, <<97, 66>>, <<97, 66, 67>>}

\* digit runs up to the Mixed limit, beyond it and beyond a chunk, alone
\* and followed by "x"
TextDigitInputs ==
    {DigitStr(n) : n \in {1, 13, 14, 44, 45, MaxDigits}}
      \cup {DigitStr(n) \o <<120>> : n \in {13, 14, 45}}

TextAsciiInputs ==
    {StrLower, StrMixed, StrPunc, StrNumeric, StrWithDigits}
      \cup TextUpperInputs \cup TextDigitInputs

InitText ==
    /\ checks \in BOOLEAN
    /\ InitEncoder(Fresh(MaxTextCap))
    /\ EccIdle
    /\ SymIdle

NextText ==
    \/ \E s \in TextAsciiInputs : AppendAscii(s)
    \/ \E ds \in {Num42} : AppendNum(ds)
    \/ \E b \in {StrAb, <<0>>} : AppendBytes(b)

SpecText == InitText /\ [][NextText]_vars

\* append_ascii has returned
AsciiReturned == op.name = "append_ascii" /\ op.fault = "none" /\ enc_pc = "open"

\* the sub-mode append_ascii starts its scan in, and the codewords it wrote
\* after the latch to text
EnterLatch == IF op.mode0 \in {4, 5} THEN 1 ELSE 0
EnterMode == IF op.mode0 \in {4, 5} THEN 0 ELSE op.mode0
AsciiBody == SubSeq(storage, op.used0 + EnterLatch + 1, used)

\* the two sub-codewords of each codeword
Unpack(cws) ==
    [j \in 1..(2 * Len(cws)) |->
        IF j % 2 = 1 THEN cws[(j + 1) \div 2] \div 30 ELSE cws[j \div 2] % 30]

IsPrefix(p, s) == Len(p) <= Len(s) /\ SubSeq(s, 1, Len(p)) = p

\* the latch sub-codewords to Lower and to Mixed from text sub-mode m
ToLower(m) == CASE m \in {0, 2} -> <<27>> [] m = 1 -> <<>> [] OTHER -> <<29, 27>>
ToMixed(m) == CASE m \in {0, 1} -> <<28>> [] m = 2 -> <<>> [] OTHER -> <<29, 28>>

\* the input is a lowercase letter, then an uppercase letter, then anything
UpperInLower ==
    /\ AsciiReturned
    /\ Len(op.arg) >= 2
    /\ is_ascii_lowercase(op.arg[1])
    /\ is_ascii_uppercase(op.arg[2])

\* C18: an uppercase letter met in Lower mode emits the shift 27 (the mode
\* stays Lower) when the next character is a lowercase letter or a space, and
\* otherwise the double latch (29, 29) to Upper; the codeword letter - 'A'
\* follows in both cases
C18_UpperShiftBeforeLowerOrSpace ==
    UpperInLower =>
        LET a == op.arg
            shift == Len(a) >= 3 /\ (is_ascii_lowercase(a[3]) \/ a[3] = 32)
        IN  /\ IsPrefix(ToLower(EnterMode) \o <<a[1] - 97>>
                          \o (IF shift THEN <<27>> ELSE <<29, 29>>) \o <<a[2] - 65>>,
                        Unpack(AsciiBody))
            /\ (Len(a) = 2 => last_mode = 0)

\* what append_ascii does: the shift only before a lowercase letter
UpperShiftBeforeLower ==
    UpperInLower =>
        LET a == op.arg
            shift == Len(a) >= 3 /\ is_ascii_lowercase(a[3])
        IN  /\ IsPrefix(ToLower(EnterMode) \o <<a[1] - 97>>
                          \o (IF shift THEN <<27>> ELSE <<29, 29>>) \o <<a[2] - 65>>,
                        Unpack(AsciiBody))
            /\ (Len(a) = 2 => last_mode = 0)

\* the number of leading digits of s
RECURSIVE LeadingDigits(_, _)
LeadingDigits(s, n) ==
    IF n < Len(s) /\ is_ascii_digit(s[n + 1]) THEN LeadingDigits(s, n + 1) ELSE n

\* the input starts with a run of digits
DigitRunFirst == AsciiReturned /\ LeadingDigits(op.arg, 0) >= 1

\* the values of the digits of chunk c (1-based) of a run of d digits of s
ChunkLen(d, c) == IF c * 44 <= d THEN 44 ELSE d - (c - 1) * 44
Chunk(s, d, c) == [j \in 1..ChunkLen(d, c) |-> s[(c - 1) * 44 + j] - 48]

\* the codewords of the chunks of a run in Numeric mode: chunk c starts after
\* the 902 and the 15 codewords of each chunk of 44 digits before it
ChunksAsReference(s, d, body) ==
    \A c \in 1..((d + 43) \div 44) :
        LET nb == ChunkLen(d, c) \div 3 + 1
            from == 1 + 15 * (c - 1)
        IN  /\ Len(NumReference(Chunk(s, d, c))) = nb
            /\ from + nb <= Len(body)
            /\ SubSeq(body, from + 1, from + nb) = NumReference(Chunk(s, d, c))

\* the number of codewords of a run of d digits in Numeric mode, 902 included
NumericLen(d) ==
    1 + 15 * (d \div 44) + (IF d % 44 = 0 THEN 0 ELSE (d % 44) \div 3 + 1)

\* C19: a run of digits is scanned up to 44 digits.  A run of at most 13
\* digits met outside Numeric mode latches to Mixed (28 from Upper and Lower,
\* nothing from Mixed, (29, 28) from Punctuation) and gives one sub-codeword
\* per digit; a longer run gives 902 once and, for each chunk of at most 44
\* digits, floor(d/3)+1 base-900 codewords of the chunk with a leading 1; 900
\* follows when a non-digit follows the Numeric chunks.  The three tests of
\* high_level.rs give the codewords they state.
C19_DigitRuns ==
    /\ DigitRunFirst =>
         LET s == op.arg
             d == LeadingDigits(s, 0)
         IN  IF d <= 13
             THEN /\ IsPrefix(ToMixed(EnterMode) \o [j \in 1..d |-> s[j] - 48],
                              Unpack(AsciiBody))
                  /\ (d = Len(s) => /\ last_mode = 2
                                    /\ Len(AsciiBody) = (Len(ToMixed(EnterMode)) + d + 1) \div 2)
             ELSE /\ AsciiBody[1] = 902
                  /\ ChunksAsReference(s, d, AsciiBody)
                  /\ \A j \in 2..NumericLen(d) : AsciiBody[j] < 900
                  /\ IF d = Len(s)
                     THEN Len(AsciiBody) = NumericLen(d) /\ last_mode = 4
                     ELSE Len(AsciiBody) > NumericLen(d) /\ AsciiBody[NumericLen(d) + 1] = 900
    /\ (AsciiReturned /\ nops = 1 /\ op.arg = StrNumeric) =>
         SubSeq(storage, 2, used)
           = <<902, 190, 232, 499, 20, 504, 721, 900, 26 * 30 + 27, 13 * 30 + 20, 12 * 30 + 29>>
    /\ (AsciiReturned /\ nops = 1 /\ op.arg = DigitStr(51)) =>
         SubSeq(storage, 2, used)
           = <<902, 491, 81, 137, 725, 651, 455, 511, 858, 135, 138, 488, 568, 447, 553, 198,
               21, 715, 821>>
    /\ (AsciiReturned /\ nops = 1 /\ op.arg = StrWithDigits) =>
         SubSeq(storage, 2, used)
           = <<27 * 30 + 4, 13 * 30 + 2, 14 * 30 + 3, 4 * 30 + 3, 26 * 30 + 28, 0 * 30 + 1,
               2 * 30 + 3, 4 * 30 + 5, 6 * 30 + 7, 8 * 30 + 9, 26 * 30 + 27, 0 * 30 + 18,
               26 * 30 + 3, 8 * 30 + 6, 8 * 30 + 19, 18 * 30 + 29>>

\* a run of more than 44 digits followed by a letter has been encoded from
\* Lower mode
C19_Witness == DigitRunFirst /\ op.mode0 = 1 /\ op.arg = DigitStr(45) \o <<120>>

\* a run of 13 digits has been encoded from Punctuation mode
DigitsAsTextReached == DigitRunFirst /\ op.mode0 = 3 /\ op.arg = DigitStr(13)

\* the mode an append call leaves, from the call alone
ModeLeft ==
    CASE op.name = "append_num" -> 4
      [] op.name = "append_bytes" -> IF Len(op.arg) > 1 \/ op.mode0 >= 4 THEN 5 ELSE op.mode0
      [] op.name = "append_ascii" /\ op.arg = StrLower -> 1
      [] op.name = "append_ascii" /\ op.arg = StrMixed -> 2
      [] op.name = "append_ascii" /\ op.arg = StrPunc -> 3
      [] op.name = "append_ascii" /\ op.arg = DigitStr(14) -> 4
      [] OTHER -> last_mode

\* the encoder a call that returned r leaves, for the next chained call
Then(r) == Enc(r.storage, r.used, FALSE, r.last_mode)

\* tests::test_seal_normal: new(&mut [0; 19], false).append_ascii("Test")
\* .append_num(42).append_num(42).append_bytes(b"encode bin").seal(0)
SealNormalChain ==
    seal(Then(append_bytes(Then(append_num(Then(append_num(Then(
           append_ascii(new(Zeros(19), FALSE), StrTest, TRUE)),
           U64(Num42), TRUE)), U64(Num42), TRUE)), BytesEncodeBin)), 0, TRUE)

\* C20: the mode an append call leaves is the mode the next one starts from:
\* append_num writes 902 if and only if the mode is not Numeric; append_ascii
\* first writes 900 and restarts in Upper if and only if the mode is Numeric
\* or Byte, and otherwise goes on in the text sub-mode the previous call left
\* (the lowercase "a" then costs no latch from Lower, 27 from Upper and Mixed,
\* (29, 27) from Punctuation); the chain of test_seal_normal, whose second
\* append_num follows the first without a 902, gives the codewords it states
C20_ModePersists ==
    /\ (op.name \in AppendNames /\ op.fault = "none") => last_mode = ModeLeft
    /\ (op.name = "append_num" /\ op.fault = "none") =>
         /\ (storage[op.used0 + 1] = 902) <=> (op.mode0 # 4)
         /\ used = op.used0 + (IF op.mode0 # 4 THEN 1 ELSE 0) + Len(op.arg) \div 3 + 1
    /\ (AsciiReturned /\ used > op.used0) =>
         (storage[op.used0 + 1] = 900) <=> (op.mode0 \in {4, 5})
    /\ (AsciiReturned /\ op.arg = StrLower) =>
         /\ Unpack(AsciiBody) = ToLower(EnterMode) \o <<0>>
                                  \o (IF Len(ToLower(EnterMode)) = 1 THEN <<>> ELSE <<29>>)
         /\ used = op.used0 + EnterLatch + (Len(ToLower(EnterMode)) + 2) \div 2
    /\ (nops = 2 /\ op.name = "append_num" /\ op.mode0 = 4) =>
         SealNormalChain.storage
           = <<17, 19 * 30 + 27, 4 * 30 + 18, 19 * 30 + 29, 902, 142, 142,
               901, 169, 883, 224, 680, 517, 32, 98, 105, 110, 516, 287>>

\* the second of two chained calls, append_ascii("a"), has started in Lower,
\* Punctuation, Numeric or Byte mode
C20_Witness ==
    /\ nops = 2
    /\ AsciiReturned
    /\ op.arg = StrLower
    /\ op.mode0 \in {1, 3, 4, 5}

\* "aB c" has been encoded from Upper mode
C18_Reached ==
    UpperInLower /\ op.arg = <<97, 66, 32, 99>> /\ op.mode0 = 0

----------------------------------------------------------------------------
(* Packing of sub-codewords, the byte fallback and the modes met by the    *)
(* loop of append_ascii: a chain of calls that set the mode, then one      *)
(* append_ascii over every short string of a small alphabet                *)

\* buffer length of the encoder
MaxPackCap == 16

\* "A", "a", "1", " ", "&" (Mixed only), ";" (Punctuation only), "," (both
\* sets) and ESC (in no set: the byte fallback)
PackAlphabet == {65, 97, 49, 32, 38, 59, 44, 27}

\* "A", "a", "&", ";<>" (three Punctuation characters latch to Punctuation)
PackSetters == {<<65>>, StrLower, StrMixed, StrPunc}

\* every string of one and of two characters, every pair of characters around
\* ESC, a run of Punctuation characters before each character, and a run of
\* 14 digits alone, before a letter and before ESC
PackProbes ==
    UNION {[1..n -> PackAlphabet] : n \in 1..2}
      \cup {<<x, 27, y>> : x, y \in PackAlphabet}
      \cup {StrPunc \o <<x>> : x \in PackAlphabet}
      \cup {DigitStr(14), DigitStr(14) \o <<97>>, DigitStr(14) \o <<27>>}

InitPack ==
    /\ checks \in BOOLEAN
    /\ \E mi \in BOOLEAN : InitEncoder(new(Fill(MaxPackCap, Blank), mi))
    /\ EccIdle
    /\ SymIdle

\* the calls before the last one leave the encoder in some mode
SetAscii(s) == nops < MaxAppends - 1 /\ AppendAscii(s)
SetNum(ds) == nops < MaxAppends - 1 /\ AppendNum(ds)
SetBytes(b) == nops < MaxAppends - 1 /\ AppendBytes(b)
\* the last call of the chain
ProbeAscii(s) == nops = MaxAppends - 1 /\ AppendAscii(s)

NextPack ==
    \/ \E s \in PackSetters : SetAscii(s)
    \/ \E ds \in {Num42} : SetNum(ds)
    \/ \E b \in {StrAb} : SetBytes(b)
    \/ \E s \in PackProbes : ProbeAscii(s)

SpecPack == InitPack /\ [][NextPack]_vars

\* the slots append_ascii wrote
AsciiWritten == SubSeq(storage, op.used0 + 1, used)

\* C21: append_ascii packs sub-codewords two per slot as hi * 30 + lo, never
\* writes a wide codeword (900, 902, 913, a raw byte) into a slot with a
\* pending half and completes a half pending at the end with 29: every slot it
\* has written holds a value in [0, 928]
C21_SlotsInCodewordRange ==
    AsciiReturned => \A j \in 1..Len(AsciiWritten) : AsciiWritten[j] \in 0..928

\* the same, for inputs without a byte outside the text sets
SlotsInRangeWithoutFallback ==
    (AsciiReturned /\ \A j \in 1..Len(op.arg) : op.arg[j] # 27)
        => \A j \in 1..Len(AsciiWritten) : AsciiWritten[j] \in 0..928

\* the encoder the call was made on
Before == Enc(op.storage0, op.used0, micro, op.mode0)

\* the input is a text character, ESC, and at most one more text character
FallbackInput ==
    /\ AsciiReturned
    /\ Len(op.arg) \in {2, 3}
    /\ op.arg[1] # 27
    /\ op.arg[2] = 27
    /\ Len(op.arg) = 3 => op.arg[3] # 27

\* the codewords of append_ascii(p), append_ascii(ESC) and append_ascii(q)
\* called one after the other: each call completes its last slot with 29
\* and hands its text sub-mode to the next
SplitAtFallback ==
    LET p == SubSeq(op.arg, 1, 1)
        q == SubSeq(op.arg, 3, Len(op.arg))
        r1 == append_ascii(Before, p, checks)
        e1 == Enc(r1.storage, r1.used, micro, r1.last_mode)
        r2 == append_ascii(e1, <<27>>, checks)
        e2 == Enc(r2.storage, r2.used, micro, r2.last_mode)
        r3 == append_ascii(e2, q, checks)
    IN  [mode1 |-> r1.last_mode, mode2 |-> r2.last_mode, used2 |-> r2.used,
         written |-> SubSeq(r3.storage, op.used0 + 1, r3.used),
         last_mode |-> r3.last_mode]

\* C22: a byte in none of the text sets is written as 913 and the byte, after
\* a pending half slot is completed with 29; the text sub-mode is unchanged, so
\* the characters after it are encoded as if the byte had not occurred
C22_ByteFallback ==
    FallbackInput =>
        /\ SplitAtFallback.mode2 = SplitAtFallback.mode1
        /\ SubSeq(storage, SplitAtFallback.used2 - 1, SplitAtFallback.used2) = <<913, 27>>
        /\ AsciiWritten = SplitAtFallback.written
        /\ last_mode = SplitAtFallback.last_mode

\* the same, when no half slot is pending at the byte: after "a" from Upper
\* (27, 0) and after "A" from Lower
FallbackWithoutPendingHalf ==
    (FallbackInput /\ \/ op.arg[1] = 97 /\ op.mode0 \in {0, 4, 5}
                      \/ op.arg[1] = 59 /\ op.mode0 \in {0, 4, 5})
        => /\ AsciiWritten = SplitAtFallback.written
           /\ last_mode = SplitAtFallback.last_mode

\* the mode and the character of every iteration of the loop of append_ascii
RECURSIVE LoopModes(_, _)
LoopModes(w, s) ==
    IF w.fault # "none" \/ w.k >= Len(s) THEN {}
    ELSE {<<w.mode, s[w.k + 1]>>} \cup LoopModes(AsciiStep(w, s), s)

\* C27: append_ascii never reaches an unreachable!("Unknown mode") arm: in
\* the loop the mode is Numeric only before a digit and never Byte
C27_NoUnknownMode ==
    op.name = "append_ascii" =>
        /\ op.fault # "unreachable"
        /\ \A mc \in LoopModes(AsciiEnter(Before), op.arg) :
             /\ mc[1] \in 0..4
             /\ mc[1] = 4 => is_ascii_digit(mc[2])

\* a Numeric chunk followed by a letter has been encoded by an encoder left
\* in Byte mode
C27_Witness ==
    AsciiReturned /\ op.mode0 = 5 /\ op.arg = DigitStr(14) \o <<97>> /\ last_mode = 1

----------------------------------------------------------------------------
(* C28: the frame of the append calls                                      *)

\* the call left the slots below the cursor at entry as they were, and wrote
\* every slot from there to the cursor at exit (the buffer held Blank, which
\* no call writes)
AppendOnly ==
    /\ Len(storage) = Len(op.storage0)
    /\ \A j \in 1..op.used0 : storage[j] = op.storage0[j]
    /\ used <= Len(storage)
    /\ \A j \in (op.used0 + 1)..used : j <= Len(storage) => storage[j] # Blank

\* C28: every append_* call writes only slots at or above the cursor at
\* entry, leaves the slots below it unchanged, and has written every slot
\* between the cursor at entry and the cursor at exit
C28_AppendOnly ==
    (op.name \in AppendNames /\ op.fault = "none") => AppendOnly

\* the same, append_num of 2^64 - 10^19 and more left aside
AppendOnlyBelowWrap ==
    (op.name \in AppendNames /\ op.fault = "none"
       /\ ~(op.name = "append_num" /\ op.arg = NumWrapZero))
        => AppendOnly

\* a second segment has been appended behind a first
SecondSegment ==
    /\ nops = 2 /\ op.name \in AppendNames /\ op.fault = "none"
    /\ op.used0 > 1 /\ used > op.used0

----------------------------------------------------------------------------
(* Row iterators: generators/pdf417.rs (PDF417Row<false>, PDF417Row<true>)  *)
(* and generators/micro_pdf417.rs (MicroPDF417Row)                          *)

\* generators/bitfield.rs: Bitfield::new(bits, count), read through as_pair
Bitfield(b, n) == [count |-> n, bits |-> b % (2 ^ n)]

\* generators/bitfield.rs: Iterator for Bitfield, the highest of the count bits first
BitfieldModules(bf) == Bits(bf.bits, bf.count)

\* generators/generator.rs
START_PAT == Bitfield(START, START_PATTERN_LEN)
END_PAT == Bitfield(END, END_PATTERN_LEN)

\* generators/pdf417.rs: cw!(tb, val)
CwField(tb, val) == Bitfield(Cw(tb, val), 17)

\* generators/pdf417.rs: PDF417Row::new; `of` remembers the arguments (history)
PDF417Row_new(cws, r, infos, truncated, dims) ==
    [codewords |-> cws, fault |-> "none",
     kind |-> IF truncated THEN "truncated" ELSE "full",
     next_pat |-> "Start", table |-> r % 3,
     markers |-> Markers(r, infos),
     start_ind |-> 0, center_ind |-> 0, end_ind |-> 0,
     of |-> [codewords |-> cws, level |-> dims[3], rows |-> dims[1], cols |-> dims[2],
             row |-> r]]

\* a next() call that panics on self.codewords[0]
RowPanic(it) == [it |-> [it EXCEPT !.fault = "bounds"], item |-> None, ret |-> FALSE]

\* generators/pdf417.rs: the Data arm of next(); after is Right or End
RowData(it, after) ==
    IF it.codewords = <<>> THEN RowPanic(it)
    ELSE [it |-> [it EXCEPT !.codewords = Tail(it.codewords),
                            !.next_pat = IF Tail(it.codewords) = <<>> THEN after ELSE "Data"],
          item |-> Some(CwField(it.table, Head(it.codewords))), ret |-> TRUE]

\* a full row that leaves the data after its first codeword
FullRow_next_onedata(it) ==
    CASE it.next_pat = "Start" ->
           [it |-> [it EXCEPT !.next_pat = "Left"], item |-> Some(START_PAT), ret |-> TRUE]
      [] it.next_pat = "Left" ->
           [it |-> [it EXCEPT !.next_pat = "Data"],
            item |-> Some(CwField(it.table, it.markers[1])), ret |-> TRUE]
      [] it.next_pat = "Data" ->
           [RowData(it, "Right") EXCEPT !.it.next_pat = "Right"]
      [] it.next_pat = "Right" ->
           [it |-> [it EXCEPT !.next_pat = "End"],
            item |-> Some(CwField(it.table, it.markers[2])), ret |-> TRUE]
      [] it.next_pat = "End" ->
           [it |-> [it EXCEPT !.next_pat = "None"], item |-> Some(END_PAT), ret |-> TRUE]
      [] OTHER -> [it |-> [it EXCEPT !.next_pat = "None"], item |-> None, ret |-> TRUE]

\* generators/pdf417.rs: Iterator::next of PDF417Row<false>
FullRow_next(it) ==
    CASE it.next_pat = "Start" ->
           [it |-> [it EXCEPT !.next_pat = "Left"], item |-> Some(START_PAT), ret |-> TRUE]
      [] it.next_pat = "Left" ->
           [it |-> [it EXCEPT !.next_pat = "Data"],
            item |-> Some(CwField(it.table, it.markers[1])), ret |-> TRUE]
      [] it.next_pat = "Data" -> RowData(it, "Right")
      [] it.next_pat = "Right" ->
           [it |-> [it EXCEPT !.next_pat = "End"],
            item |-> Some(CwField(it.table, it.markers[2])), ret |-> TRUE]
      [] it.next_pat = "End" ->
           [it |-> [it EXCEPT !.next_pat = "None"], item |-> Some(END_PAT), ret |-> TRUE]
      [] OTHER -> [it |-> [it EXCEPT !.next_pat = "None"], item |-> None, ret |-> TRUE]

\* a truncated row that ends with the whole end pattern
TruncatedRow_next_endpat(it) ==
    CASE it.next_pat = "Start" ->
           [it |-> [it EXCEPT !.next_pat = "Left"], item |-> Some(START_PAT), ret |-> TRUE]
      [] it.next_pat = "Left" ->
           [it |-> [it EXCEPT !.next_pat = "Data"],
            item |-> Some(CwField(it.table, it.markers[1])), ret |-> TRUE]
      [] it.next_pat = "Data" -> RowData(it, "End")
      [] it.next_pat = "End" ->
           [it |-> [it EXCEPT !.next_pat = "None"], item |-> Some(END_PAT), ret |-> TRUE]
      [] OTHER -> [it |-> [it EXCEPT !.next_pat = "None"], item |-> None, ret |-> TRUE]

\* generators/pdf417.rs: Iterator::next of PDF417Row<true>
TruncatedRow_next(it) ==
    CASE it.next_pat = "Start" ->
           [it |-> [it EXCEPT !.next_pat = "Left"], item |-> Some(START_PAT), ret |-> TRUE]
      [] it.next_pat = "Left" ->
           [it |-> [it EXCEPT !.next_pat = "Data"],
            item |-> Some(CwField(it.table, it.markers[1])), ret |-> TRUE]
      [] it.next_pat = "Data" -> RowData(it, "End")
      [] it.next_pat = "End" ->
           [it |-> [it EXCEPT !.next_pat = "None"], item |-> Some(Bitfield(1, 1)), ret |-> TRUE]
      [] OTHER -> [it |-> [it EXCEPT !.next_pat = "None"], item |-> None, ret |-> TRUE]

\* generators/pdf417.rs: size_hint of PDF417Row<false>
FullRow_size_hint(it) ==
    Len(it.codewords) + (CASE it.next_pat = "Start" -> 4
                           [] it.next_pat = "Left" -> 3
                           [] it.next_pat = "Data" -> 2
                           [] it.next_pat = "Right" -> 2
                           [] it.next_pat = "End" -> 1
                           [] OTHER -> 0)

\* generators/pdf417.rs: size_hint of PDF417Row<true>
TruncatedRow_size_hint(it) ==
    Len(it.codewords) + (CASE it.next_pat = "Start" -> 3
                           [] it.next_pat = "Left" -> 2
                           [] it.next_pat = "Data" -> 1
                           [] it.next_pat = "End" -> 1
                           [] OTHER -> 0)

\* tables.rs: the 10-bit side and center patterns of the Row Address
\* Patterns, indexed 0..50 (a stand-in for the table)
M_PDF417_SIDE(i) == (i * 613 + 5) % 1024
M_PDF417_CENTER(i) == (i * 421 + 77) % 1024

\* generators/micro_pdf417.rs: MicroPDF417Row::init; infos is what prepare
\* read from M_PDF417_RAP for the variant
MicroPDF417Row_init(cws, r, infos, dims) ==
    [codewords |-> cws, fault |-> "none", kind |-> "micro", next_pat |-> "Start",
     table |-> (infos[4] + r) % 3, markers |-> <<0, 0>>,
     start_ind |-> (infos[1] + r) % 51,
     center_ind |-> (infos[2] + r) % 51,
     end_ind |-> (infos[3] + r) % 51,
     of |-> [codewords |-> cws, level |-> dims[3], rows |-> dims[1], cols |-> dims[2],
             row |-> r]]

\* generators/micro_pdf417.rs: Iterator::next of MicroPDF417Row
MicroRow_next(it) ==
    CASE it.next_pat = "Start" ->
           [it |-> [it EXCEPT !.next_pat = IF Len(it.codewords) > 2 THEN "LeftData"
                                           ELSE "RightData"],
            item |-> Some(Bitfield(M_PDF417_SIDE(it.start_ind), 10)), ret |-> TRUE]
      [] it.next_pat = "LeftData" /\ Len(it.codewords) < 2 ->
           [it |-> [it EXCEPT !.next_pat = "RightData"],
            item |-> Some(Bitfield(M_PDF417_CENTER(it.center_ind), 10)), ret |-> TRUE]
      [] it.next_pat = "RightData" /\ it.codewords = <<>> ->
           [it |-> [it EXCEPT !.next_pat = "None"],
            item |-> Some(Bitfield(M_PDF417_SIDE(it.end_ind) * 2 + 1, 11)), ret |-> TRUE]
      [] it.next_pat \in {"LeftData", "RightData"}
           /\ ~(it.next_pat = "LeftData" /\ Len(it.codewords) < 2)
           /\ ~(it.next_pat = "RightData" /\ it.codewords = <<>>) ->
           [it |-> [it EXCEPT !.codewords = Tail(it.codewords)],
            item |-> Some(CwField(it.table, Head(it.codewords))), ret |-> TRUE]
      [] OTHER -> [it |-> [it EXCEPT !.next_pat = "None"], item |-> None, ret |-> TRUE]

\* generators/micro_pdf417.rs: size_hint of MicroPDF417Row; Rust reads
\* 2 + len + (len >> 1) & 1 as (2 + len + (len >> 1)) & 1
MicroRow_size_hint(it) ==
    IF it.next_pat = "None" THEN 0
    ELSE (2 + Len(it.codewords) + (Len(it.codewords) \div 2)) % 2

\* Iterator::next and size_hint of whichever row type the iterator is
Row_next(it) ==
    CASE it.kind = "full" -> FullRow_next(it)
      [] it.kind = "truncated" -> TruncatedRow_next(it)
      [] OTHER -> MicroRow_next(it)

size_hint(it) ==
    CASE it.kind = "full" -> FullRow_size_hint(it)
      [] it.kind = "truncated" -> TruncatedRow_size_hint(it)
      [] OTHER -> MicroRow_size_hint(it)

\* calls of next() made on an exhausted iterator before the row is dropped
MaxNone == 2

\* dimensions of the symbols whose rows are iterated: the smallest, the
\* greatest, and the three values of (rows - 1) % 3
RowRows == {MIN_ROWS, MIN_ROWS + 1, MIN_ROWS + 2, MAX_ROWS}
RowCols == {MIN_COLS, MIN_COLS + 1, MIN_COLS + 2, MAX_COLS}
RowLevels == {0, 4, MaxEccLevel}
\* row indices: the first three (one per table) and the last three
RowIndices(rows) == {r \in {0, 1, 2, rows - 3, rows - 2, rows - 1} : r >= 0 /\ r < rows}

\* MicroPDF417 rows: 1 to 4 data columns; the Info tuples prepare can
\* return (three indices below 51 and a table, read from tables.rs)
MicroCols == 1..4
MicroInfos == {<<0, 0, 0, 0>>, <<7, 20, 33, 1>>, <<50, 50, 50, 2>>}
MicroIndices == {0, 1, 43}

\* the codewords of row r of a symbol of the given width (storage.chunks(cols))
RowSlice(r, cols) == [j \in 1..cols |-> SymCodeword(r * cols + j - 1)]

RowStarted(it) ==
    /\ iter.kind = "none"
    /\ iter' = it
    /\ yielded' = <<>>
    /\ UNCHANGED <<checks, eccVars, encVars, sym, sym_pc, target>>

\* PDF417<PDF417Row<false>>::iter(): R::init(codewords, row, R::prepare(dimensions, level))
FullInit(rows, cols, lv, r) ==
    RowStarted(PDF417Row_new(RowSlice(r, cols), r, Prepare(rows, cols, lv), FALSE,
                             <<rows, cols, lv>>))

\* PDF417<PDF417Row<true>>::iter()
TruncatedInit(rows, cols, lv, r) ==
    RowStarted(PDF417Row_new(RowSlice(r, cols), r, Prepare(rows, cols, lv), TRUE,
                             <<rows, cols, lv>>))

\* PDF417<MicroPDF417Row>::iter()
MicroInit(cols, infos, r) ==
    RowStarted(MicroPDF417Row_init(RowSlice(r, cols), r, infos, <<r + 1, cols, 0>>))

\* the number of calls of next() that returned None
NoneCount == Cardinality({k \in 1..Len(yielded) : yielded[k] = None})

RowStepped(res) ==
    /\ iter.fault = "none"
    /\ NoneCount < MaxNone
    /\ iter' = res.it
    /\ yielded' = IF res.ret THEN Append(yielded, res.item) ELSE yielded
    /\ UNCHANGED <<checks, eccVars, encVars, sym, sym_pc, target>>

FullNext == iter.kind = "full" /\ RowStepped(FullRow_next(iter))
TruncatedNext == iter.kind = "truncated" /\ RowStepped(TruncatedRow_next(iter))
MicroNext == iter.kind = "micro" /\ RowStepped(MicroRow_next(iter))

InitRow ==
    /\ checks \in BOOLEAN
    /\ EccIdle
    /\ EncIdle
    /\ SymIdle

NextRow ==
    \/ \E rows \in RowRows, cols \in RowCols, lv \in RowLevels :
         \E r \in RowIndices(rows) : FullInit(rows, cols, lv, r)
    \/ \E rows \in RowRows, cols \in RowCols, lv \in RowLevels :
         \E r \in RowIndices(rows) : TruncatedInit(rows, cols, lv, r)
    \/ \E cols \in MicroCols, infos \in MicroInfos, r \in MicroIndices :
         MicroInit(cols, infos, r)
    \/ FullNext
    \/ TruncatedNext
    \/ MicroNext

SpecRow == InitRow /\ [][NextRow]_vars

----------------------------------------------------------------------------
(* C23, C24, C25: the full and the truncated row                            *)

\* the bitfields next() still yields from state it, in order, until None
\* (or the panic)
RECURSIVE Drain(_)
Drain(it) ==
    LET res == Row_next(it)
    IN  IF ~res.ret \/ res.item = None THEN <<>>
        ELSE <<res.item[1]>> \o Drain(res.it)

\* the bitfields returned so far, without the Nones
YieldedFields ==
    LET RECURSIVE f(_)
        f(k) == IF k > Len(yielded) THEN <<>>
                ELSE (IF yielded[k] = None THEN <<>> ELSE <<yielded[k][1]>>) \o f(k + 1)
    IN  f(1)

\* the modules of a sequence of bitfields
FieldModules(fs) == Flatten([k \in 1..Len(fs) |-> BitfieldModules(fs[k])])

\* the row indicators as the symbology defines them, for the row o
RowGroup(o) == (o.row \div 3) * 30
LeftValue(o) ==
    RowGroup(o) + (CASE o.row % 3 = 0 -> (o.rows - 1) \div 3
                     [] o.row % 3 = 1 -> o.level * 3 + ((o.rows - 1) % 3)
                     [] OTHER -> o.cols - 1)
RightValue(o) ==
    RowGroup(o) + (CASE o.row % 3 = 0 -> o.cols - 1
                     [] o.row % 3 = 1 -> (o.rows - 1) \div 3
                     [] OTHER -> o.level * 3 + ((o.rows - 1) % 3))

\* Start, Left, the data codewords in storage order, Right, End
FullExpected(o) ==
    <<START_PAT, CwField(o.row % 3, LeftValue(o))>>
      \o [j \in 1..Len(o.codewords) |-> CwField(o.row % 3, o.codewords[j])]
      \o <<CwField(o.row % 3, RightValue(o)), END_PAT>>

\* the calls of next() so far returned the bitfields of exp in order, each
\* once, and None from then on
YieldedIs(exp) ==
    \A k \in 1..Len(yielded) :
        yielded[k] = IF k <= Len(exp) THEN Some(exp[k]) ELSE None

\* row o of the symbol as PDF417::render of lib.rs writes it at scale (1, 1)
LibRowModules(o) ==
    LET s == PDF417_new(SymCodewords(o.rows * o.cols), o.rows, o.cols, o.level).sym
        w == pdf417_width(o.cols, 1, s.truncated)
        st == PDF417_render(s, [j \in 1..(w * o.rows) |-> FALSE], TRUE)
    IN  SubSeq(st.out, o.row * w + 1, (o.row + 1) * w)

\* symbols small enough to render whole
SmallSymbol(o) == o.rows <= MIN_ROWS + 2 /\ o.cols <= MIN_COLS + 2

\* the row iterator has returned None at least once
Exhausted == NoneCount > 0

\* C23: a full row iterator yields the 17-bit start pattern, the left
\* indicator, its cols data codewords in storage order, the right indicator
\* and the 18-bit end pattern, cols + 4 bitfields and nothing else, and None on
\* every call after that; PDF417::render of lib.rs writes the same modules
C23_FullRowOrder ==
    iter.kind = "full" =>
        /\ iter.fault = "none"
        /\ YieldedIs(FullExpected(iter.of))
        /\ Len(FullExpected(iter.of)) = iter.of.cols + 4
        /\ START_PAT = [count |-> 17, bits |-> START]
        /\ END_PAT = [count |-> 18, bits |-> END]
        /\ (Exhausted /\ SmallSymbol(iter.of)) =>
               FieldModules(YieldedFields) = LibRowModules(iter.of)

\* a full row of more than one column has been drained and asked twice more
C23_Witness ==
    /\ iter.kind = "full"
    /\ iter.of.cols = MIN_COLS + 2
    /\ iter.of.row = 1
    /\ Len(yielded) = iter.of.cols + 4 + MaxNone
    /\ yielded[Len(yielded)] = None

\* C24: for row r the table is r mod 3 and the left and right indicator
\* values are row_group plus (rows_val, level_val, cols_val) and (cols_val,
\* rows_val, level_val) by table, in generators/pdf417.rs and in lib.rs
\* alike; both are below 929
C24_Indicators ==
    iter.kind \in {"full", "truncated"} =>
        LET o == iter.of
            s == [rows |-> o.rows, cols |-> o.cols, level |-> o.level]
        IN  /\ iter.table = o.row % 3
            /\ iter.markers = <<LeftValue(o), RightValue(o)>>
            /\ RowGroup(o) + LibIndicator(s, iter.table, 0) = LeftValue(o)
            /\ RowGroup(o) + LibIndicator(s, iter.table, 1) = RightValue(o)
            /\ iter.markers[1] < 929 /\ iter.markers[2] < 929
            /\ iter.table * 929 + iter.markers[1] < 3 * 929
            /\ iter.table * 929 + iter.markers[2] < 3 * 929

\* the last row of the greatest symbol at the highest level has yielded both
\* indicators
C24_Witness ==
    /\ iter.kind = "full"
    /\ iter.of.rows = MAX_ROWS /\ iter.of.cols = MAX_COLS /\ iter.of.level = MaxEccLevel
    /\ iter.of.row = MAX_ROWS - 1
    /\ iter.next_pat = "End"
    /\ iter.markers = <<899, 896>>

\* C25: a truncated row yields what the full row of the same codewords, row
\* index and dimensions yields up to its last data codeword, then a single
\* set bit instead of the right indicator and the end pattern: 34 modules less
C25_TruncatedRow ==
    iter.kind = "truncated" =>
        LET o == iter.of
            full == Drain(PDF417Row_new(o.codewords, o.row,
                                        Prepare(o.rows, o.cols, o.level), FALSE,
                                        <<o.rows, o.cols, o.level>>))
            trunc == SubSeq(full, 1, o.cols + 2) \o <<Bitfield(1, 1)>>
        IN  /\ iter.fault = "none"
            /\ Len(full) = o.cols + 4
            /\ YieldedIs(trunc)
            /\ BitfieldModules(trunc[Len(trunc)]) = <<TRUE>>
            /\ Len(FieldModules(trunc)) = Len(FieldModules(full)) - 34
            /\ Exhausted => Len(FieldModules(YieldedFields)) + 34 = Len(FieldModules(full))

\* a truncated row of more than one column has been drained
C25_Witness ==
    /\ iter.kind = "truncated"
    /\ iter.of.cols = MIN_COLS + 1
    /\ iter.of.row = 2
    /\ Exhausted
    /\ Len(YieldedFields) = iter.of.cols + 3

----------------------------------------------------------------------------
(* C26, C29: the MicroPDF417 row and size_hint                              *)

\* a MicroPDF417 row with `left` data codewords before the center pattern:
\* start, data, center when there are more than 2 columns, data, end + stop
MicroExpected(o, it, left) ==
    LET data == [j \in 1..Len(o.codewords) |-> CwField(it.table, o.codewords[j])]
    IN  <<Bitfield(M_PDF417_SIDE(it.start_ind), 10)>>
          \o SubSeq(data, 1, left)
          \o (IF o.cols > 2 THEN <<Bitfield(M_PDF417_CENTER(it.center_ind), 10)>> ELSE <<>>)
          \o SubSeq(data, left + 1, Len(data))
          \o <<Bitfield(M_PDF417_SIDE(it.end_ind) * 2 + 1, 11)>>

\* C26: a MicroPDF417 row of 1 to 4 columns yields the 10-bit start pattern,
\* at most 2 data codewords, the 10-bit center pattern exactly when it has
\* more than 2 columns, the remaining data codewords and the 11-bit end
\* pattern with the stop bit, every data codeword once and in storage order,
\* and None after that
C26_MicroRowOrder ==
    iter.kind = "micro" =>
        \E left \in 0..2 :
            /\ left <= iter.of.cols
            /\ YieldedIs(MicroExpected(iter.of, iter, left))

\* the data codewords before the center pattern as the code counts them:
\* all of them up to 2 columns, all but the last one above
CodeLeft(o) == IF o.cols > 2 THEN o.cols - 1 ELSE o.cols

\* what MicroPDF417Row yields: the row of C26 with cols - 1 data codewords
\* before the center pattern (3 of them when there are 4 columns)
MicroRowAsCoded ==
    iter.kind = "micro" =>
        /\ iter.fault = "none"
        /\ YieldedIs(MicroExpected(iter.of, iter, CodeLeft(iter.of)))
        /\ iter.start_ind < 51 /\ iter.center_ind < 51 /\ iter.end_ind < 51
        /\ iter.table < 3

\* a MicroPDF417 row of 4 columns has been drained
MicroRowDrained ==
    /\ iter.kind = "micro"
    /\ iter.of.cols = 4
    /\ Exhausted
    /\ Len(YieldedFields) = 7

\* C29: in every state of a full, truncated or MicroPDF417 row iterator
\* size_hint is the number of bitfields the following calls of next() yield
C29_SizeHintExact ==
    iter.kind # "none" => size_hint(iter) = Len(Drain(iter))

\* size_hint is exact for the full and the truncated row
SizeHintExactFullTruncated ==
    iter.kind \in {"full", "truncated"} => size_hint(iter) = Len(Drain(iter))

\* what MicroPDF417Row::size_hint returns: the parity of 2 + len + len / 2
\* while the row is not exhausted
MicroSizeHintAsCoded ==
    (iter.kind = "micro" /\ iter.next_pat # "None") =>
        /\ size_hint(iter) \in {0, 1}
        /\ Len(Drain(iter)) >= 1
        /\ iter.next_pat = "Start" => Len(Drain(iter)) >= 3

----------------------------------------------------------------------------
(* C30: packed byte targets: fill_bitmap of builder.rs, BitShifter of lib.rs *)

\* bit k of the byte b
ByteBit(b, k) == (b \div (2 ^ k)) % 2 = 1

\* b | ((v as u8) << k)
ByteOr(b, v, k) == IF v /\ ~ByteBit(b, k) THEN b + 2 ^ k ELSE b

\* builder.rs: fill_bitmap, the iterations of the loop made with one value of
\* i: they start with mask = 7 and the modules ms still to come; the
\* iteration that finds mask == 0 stores nothing and moves on to the next byte
RECURSIVE BitmapByte(_, _, _)
BitmapByte(b, ms, mask) ==
    IF ms = <<>> \/ mask = 0 THEN b
    ELSE BitmapByte(ByteOr(b, Head(ms), mask), Tail(ms), mask - 1)

\* builder.rs: fill_bitmap(target): every eighth iteration finds mask == 0, so
\* the modules 8 g .. 8 g + 7 of bits() meet i = g; target[i] panics beyond
\* the target
fill_bitmap(s, tg) ==
    LET m == bits(s)
        groups == (Len(m) + 7) \div 8
        upto(g) == IF 8 * g < Len(m) THEN 8 * g ELSE Len(m)
        done == IF groups > Len(tg) THEN Len(tg) ELSE groups
    IN  [fault |-> IF groups > Len(tg) THEN "bounds" ELSE "none",
         out |-> [g \in 1..Len(tg) |->
                     IF g <= done THEN BitmapByte(tg[g], SubSeq(m, 8 * (g - 1) + 1, upto(g)), 7)
                     ELSE tg[g]],
         i |-> IF groups > Len(tg) THEN Len(tg) ELSE Len(m) \div 8]

\* lib.rs: BitShifter::shift(storage, v); st = [out, cursor, bit, fault]
BitShifter_shift(st, v) ==
    IF st.fault # "none" THEN st
    ELSE IF st.cursor >= Len(st.out) THEN [st EXCEPT !.fault = "bounds"]
    ELSE LET o == [st.out EXCEPT ![st.cursor + 1] = ByteOr(@, v, 7 - st.bit)]
         IN  IF st.bit + 1 = 8
             THEN [st EXCEPT !.out = o, !.cursor = @ + 1, !.bit = 0]
             ELSE [st EXCEPT !.out = o, !.bit = @ + 1]

\* lib.rs: the modules ms[lo..hi] shifted into the storage one after the other
RECURSIVE ShiftAll(_, _, _, _)
ShiftAll(st, ms, lo, hi) ==
    IF lo > hi \/ st.fault # "none" THEN st
    ELSE IF lo = hi THEN BitShifter_shift(st, ms[lo])
    ELSE LET mid == (lo + hi) \div 2
             half == ShiftAll(st, ms, lo, mid)
         IN  IF half.fault # "none" THEN half ELSE ShiftAll(half, ms, mid + 1, hi)

\* lib.rs: RenderTarget for [u8]: append_bits at scale (1, 1)
ByteSlice_append_bits(st, value, n) == ShiftAll(st, Bits(value, n), 1, n)

\* lib.rs: init_state of a [u8] target of len zeroed bytes
ByteSlice(len) == [fault |-> "none", out |-> [j \in 1..len |-> 0], cursor |-> 0, bit |-> 0]

\* tests::test_append_bits_to_byte_slice
ByteSliceTest ==
    ByteSlice_append_bits(
      ByteSlice_append_bits(
        ByteSlice_append_bits(
          ByteSlice_append_bits(ByteSlice(5), 87381, 17), 7281, 13), 3, 2), 7, 7).out

\* the bytes the stream of s needs at 8 modules per byte
BitmapLen(s) == (Len(bits(s)) + 7) \div 8

\* fill_bitmap into a zeroed target of that length plus extra bytes
FillBitmap(extra) ==
    /\ sym_pc = "built" /\ sym.api = "builder"
    /\ Rendered(fill_bitmap(sym, [j \in 1..(BitmapLen(sym) + extra) |-> 0]))

InitBitmap ==
    /\ checks \in BOOLEAN
    /\ EccIdle
    /\ EncIdle
    /\ SymIdle

NextBitmap ==
    \/ \E rows \in SymRows, cols \in SymCols, lv \in SymLevels, t \in BOOLEAN :
         \E n \in SymLens(rows, cols) : BuilderNew(n, rows, cols, lv, t)
    \/ \E scale \in SymScales : SetScale(scale)
    \/ \E b \in BOOLEAN : SetInverted(b)
    \/ \E extra \in {0, 1} : FillBitmap(extra)

SpecBitmap == InitBitmap /\ [][NextBitmap]_vars

\* module k (from 0) of the stream ms is bit 7 - (k mod 8) of byte k / 8
PackedMsbFirst(out, ms) ==
    \A k \in 0..(Len(ms) - 1) :
        /\ k \div 8 < Len(out)
        /\ ByteBit(out[k \div 8 + 1], 7 - (k % 8)) = ms[k + 1]

\* C30: fill_bitmap into a zeroed byte target stores module k of bits() in
\* bit 7 - (k mod 8) of byte floor(k / 8), 8 modules per byte, none dropped
C30_BitmapLossless ==
    sym_pc \in {"rendered", "panic"} =>
        /\ target.fault = "none"
        /\ PackedMsbFirst(target.out, bits(sym))

\* 7 modules of every 8 are stored, in the bits 7 to 1; bit 0 is left clear
SevenPerByte(out, ms) ==
    \A k \in 0..(Len(ms) - 1) :
        ByteBit(out[k \div 8 + 1], 7 - (k % 8)) = (k % 8 # 7 /\ ms[k + 1])

\* what fill_bitmap stores: 7 modules per byte, every eighth module dropped
BitmapSevenPerByte ==
    sym_pc \in {"rendered", "panic"} =>
        /\ target.fault = "none"
        /\ SevenPerByte(target.out, bits(sym))

\* BitShifter of lib.rs packs 8 modules per byte: the stream of an unscaled
\* symbol, and the bytes of test_append_bits_to_byte_slice
BitShifterLossless ==
    /\ ByteSliceTest = <<170, 170, 241, 199, 14>>
    /\ (sym_pc = "rendered" /\ sym.scale = <<1, 1>> /\ sym.rows = MIN_ROWS) =>
          LET ms == bits(sym)
              st == ShiftAll(ByteSlice((Len(ms) + 7) \div 8), ms, 1, Len(ms))
          IN  st.fault = "none" /\ PackedMsbFirst(st.out, ms)

\* a symbol has been packed into bytes
BitmapFilled ==
    /\ sym_pc = "rendered"
    /\ Len(target.out) > 0
    /\ sym.scale = <<1, 1>>

====
